---- MODULE Spec2Model ----
(***************************************************************************)
(* WinGIF (TinyCapture): the session state machine (crates/app/state.rs),  *)
(* the UI handlers, capture worker, event handler and export thread        *)
(* (crates/app/main.rs), modelled as state machines.                       *)
(*                                                                         *)
(* Option<T> is a sequence of length at most one: <<>> is None and <<x>>   *)
(* is Some(x).                                                             *)
(***************************************************************************)
EXTENDS Integers, Sequences, FiniteSets, TLC

VARIABLES
    sm,       \* UiState.state_machine: StateMachine { state, session }
    op,       \* SpecSM: the StateMachine method called last
    ret,      \* SpecSM: what that call returned ("true", "false", "unit")
    status,   \* UiState.status_text (which message it holds)
    ui_fc,    \* UiState.frame_count
    btn,      \* enabled flags of the record / stop / export buttons
    upd,      \* a WM_APP_UPDATE_STATE message is posted and not yet handled
    ui,       \* UI thread: stack of handler activations (nested message loops)
    main_pc,  \* main(): "loop", "shutdown", "join_worker", "join_handler", "exited"
    cmdq,     \* bounded(4) channel of CaptureCommand
    resq,     \* bounded(4) channel of CaptureResult
    w,        \* capture_worker locals
    rh,       \* result_handler: the event received and not yet handled, "done" flag
    exports,  \* export threads spawned by on_export_click
    disk,     \* temp directories on disk: directory -> set of frame indices
    next_dir, \* number of temp directories created so far
    peer_sent, \* SpecWorker: commands sent to the worker so far
    pace,     \* SpecPacing: the pacing state of capture_worker on a fine clock
    fp,       \* SpecFrame: a FrameProcessor and the paths it has written
    gif,      \* SpecExport: one export thread and its two encoder stage threads
    geo,      \* SpecGeometry: a selection, a frame size and the rectangles computed
    ctl       \* SpecController: one CaptureController

smvars == <<sm, op, ret>>
sysvars == <<status, ui_fc, btn, upd, ui, main_pc, cmdq, resq, w, rh, exports,
             disk, next_dir, peer_sent, pace, fp, gif, geo, ctl>>
vars == <<sm, op, ret, status, ui_fc, btn, upd, ui, main_pc, cmdq, resq, w, rh,
          exports, disk, next_dir, peer_sent, pace, fp, gif, geo, ctl>>

(***************************************************************************)
(* Bounds                                                                  *)
(***************************************************************************)
MaxDirs == 2      \* temp directories (recordings) created in a run
MaxFrames == 2    \* frames a frame processor persists in one capture run
MaxSecs == 1      \* whole seconds a capture run lasts
TicksPerSec == 2  \* pacing intervals per second (the time unit is one interval)
MaxUiDepth == 2   \* handler activations nested through modal message loops
MaxExports == 1   \* export threads spawned in a run
MaxCmds == 5      \* SpecWorker: commands the worker's peers send in a run
MaxExitCmds == 4  \* SpecShutdown: commands sent before the window is destroyed
MaxClock == 13    \* SpecPacing: clock units a run is followed for
PaceUnitsPerSec == 6 \* SpecPacing: clock units in a second
MinInterval == 2  \* SpecPacing: the shortest pacing interval, in clock units
MaxInterval == 3  \* SpecPacing: the longest pacing interval, in clock units
MaxPaceFrames == 5 \* SpecPacing: frames processed in one capture run
DurUnitsPerSec == 8 \* SpecExport: duration_secs is counted in eighths of a second
MaxGifFrames == 2 \* SpecExport: frame paths handed to export_from_pngs
MaxProcFrames == 12 \* SpecFrame: frames one frame processor counts
MaxSide == 3      \* SpecGeometry: the longest side of a frame or monitor, in pixels
MaxCtlFrames == 2 \* SpecController: frames one controller hands out

\* bounded(4): capacity of the command and of the event channel
QueueCap == 4

Dirs == 1..MaxDirs
None == <<>>
Some(x) == <<x>>

(***************************************************************************)
(* state.rs                                                                *)
(***************************************************************************)
AppState == {"Idle", "Selecting", "Recording", "Recorded", "Exporting"}

\* can_record that is true in Idle only
can_record_idle_only(s) == s = "Idle"

can_record(s) == s \in {"Idle", "Recorded"}
can_stop(s) == s = "Recording"
can_export(s) == s = "Recorded"

\* RecordingSession::new: counts start at zero (target, region and the
\* constant fps of 15 are not read by any transition)
RecordingSession_new(dir) ==
    [temp_dir |-> dir, frame_count |-> 0, duration_secs |-> 0]

\* the decimal digits of n, most significant first
RECURSIVE Digits(_)
Digits(n) == IF n < 10 THEN <<n>> ELSE Append(Digits(n \div 10), n % 10)

\* `{:05}`: the digits of index, zeros put in front up to a width of 5
ZeroPad5(index) ==
    LET ds == Digits(index) IN
    IF Len(ds) >= 5 THEN ds ELSE [k \in 1..(5 - Len(ds)) |-> 0] \o ds

\* the file name with the index not padded
frame_file_name_unpadded(index) ==
    [prefix |-> "frame_", digits |-> Digits(index), suffix |-> ".png"]

\* format!("frame_{:05}.png", index)
frame_file_name(index) ==
    [prefix |-> "frame_", digits |-> ZeroPad5(index), suffix |-> ".png"]

\* PathBuf::join of a directory and a file name
join(dir, name) == [dir |-> dir, name |-> name]

\* RecordingSession::frame_path
frame_path(session, index) == join(session.temp_dir, frame_file_name(index))

\* RecordingSession::all_frame_paths
session_frame_paths(session) ==
    [i \in 1..session.frame_count |-> frame_path(session, i - 1)]

\* the number a digit sequence writes
RECURSIVE Number(_)
Number(ds) ==
    IF ds = <<>> THEN 0
    ELSE 10 * Number(SubSeq(ds, 1, Len(ds) - 1)) + ds[Len(ds)]

\* the frame a path of a temp directory names: the disk keeps, for each
\* directory, the numbers of the frame files in it
FileIndex(path) == Number(path.name.digits)

StateMachine_new == [state |-> "Idle", session |-> None]

\* every transition maps the machine to [sm |-> the machine after, ok |-> result]
start_selecting(m) ==
    IF can_record(m.state)
    THEN [sm |-> [m EXCEPT !.state = "Selecting"], ok |-> TRUE]
    ELSE [sm |-> m, ok |-> FALSE]

\* start_recording that forgets to bind the session it is given
start_recording_unbound(m, session) ==
    IF m.state = "Selecting"
    THEN [sm |-> [m EXCEPT !.state = "Recording"], ok |-> TRUE]
    ELSE [sm |-> m, ok |-> FALSE]

start_recording(m, session) ==
    IF m.state = "Selecting"
    THEN [sm |-> [state |-> "Recording", session |-> Some(session)], ok |-> TRUE]
    ELSE [sm |-> m, ok |-> FALSE]

\* cancel_selecting without its check of the current state
cancel_selecting_unguarded(m) == [sm |-> [m EXCEPT !.state = "Idle"], ok |-> TRUE]

cancel_selecting(m) ==
    IF m.state = "Selecting"
    THEN [sm |-> [m EXCEPT !.state = "Idle"], ok |-> TRUE]
    ELSE [sm |-> m, ok |-> FALSE]

stop_recording(m) ==
    IF can_stop(m.state)
    THEN [sm |-> [m EXCEPT !.state = "Recorded"], ok |-> TRUE]
    ELSE [sm |-> m, ok |-> FALSE]

\* start_exporting that also clears the counts of the session
start_exporting_clears_counts(m) ==
    IF can_export(m.state)
    THEN [sm |-> [state |-> "Exporting",
                  session |-> IF m.session = None THEN None
                              ELSE Some([m.session[1] EXCEPT !.frame_count = 0,
                                                             !.duration_secs = 0])],
          ok |-> TRUE]
    ELSE [sm |-> m, ok |-> FALSE]

start_exporting(m) ==
    IF can_export(m.state)
    THEN [sm |-> [m EXCEPT !.state = "Exporting"], ok |-> TRUE]
    ELSE [sm |-> m, ok |-> FALSE]

\* unconditional in the source: no check of the current state
finish_exporting(m) == [state |-> "Idle", session |-> None]

cancel_exporting(m) ==
    IF m.state = "Exporting" THEN [m EXCEPT !.state = "Recorded"] ELSE m

\* reset that goes back to Idle but keeps the session
reset_keeps_session(m) == [m EXCEPT !.state = "Idle"]

reset(m) == [state |-> "Idle", session |-> None]

\* session_mut(): the caller overwrites the counts of the bound session
session_set_counts(m, fc, dur) ==
    IF m.session = None THEN m
    ELSE [m EXCEPT !.session = Some([m.session[1] EXCEPT
                        !.frame_count = fc, !.duration_secs = dur])]

(***************************************************************************)
(* The whole program: initial state (main.rs main, ui.rs UiState::new)     *)
(***************************************************************************)
MaxTicks == MaxSecs * TicksPerSec

\* fps: the target_fps of a Start command (0 in the other commands)
Cmd(t, d, fps) == [type |-> t, dir |-> d, fps |-> fps]
\* run: the directory of the capture run the event comes from (0: none)
Event(t, fc, secs, run) == [type |-> t, frame_count |-> fc, secs |-> secs, run |-> run]

Frame(h, pc, dir, paths, fc, dur) ==
    [h |-> h, pc |-> pc, dir |-> dir, paths |-> paths, fc |-> fc, dur |-> dur]

\* frame_interval is held as the rate it is computed from: 1/15 s at first
DefaultFps == 15
\* the fps on_record_click puts in its Start command
RecordFps == 15

\* `let mut fps = 15u8` of the export thread, and the limits of its clamp
ExportDefaultFps == 15
MinFps == 1
MaxFps == 60

\* the largest i32: `as i32` saturates
I32Max == 2147483647

\* 2^16: a u32 is kept as two halves of 16 bits
Half == 65536

Worker_new ==
    [pc |-> "init", controller |-> FALSE, processor |-> None, running |-> FALSE,
     since_frame |-> 0, frame_interval |-> DefaultFps, start_time |-> None,
     last_progress_secs |-> 0, out |-> None,
     \* history: how the last Start went, frame files written since it succeeded
     attempt |-> "none", persisted |-> 0]

\* the pacing locals of capture_worker (main.rs 439-442) on a clock of small
\* units; pc: "loop", "start2" between the two Instant::now() of a Start, or
\* "progress" between the capture part and the progress part of an iteration.
\* history: frames processed since the last Start, prev the clock read at
\* which the last of them was processed, polled the clock read of the last
\* try_get_frame call since the last Start, and repolled, whether a call
\* came less than frame_interval after the call before it; frame_count is
\* the count of the frame processor, emitted the Progress events sent since
\* the last Start
Pacing_new ==
    [pc |-> "loop", now |-> 0, running |-> FALSE, last_frame_time |-> 0,
     frame_interval |-> MinInterval, start_time |-> None,
     last_progress_secs |-> 0, frame_count |-> 0,
     frames |-> 0, prev |-> None, polled |-> None, repolled |-> FALSE,
     emitted |-> <<>>]

\* FrameProcessor::new (frame.rs 70-76).
\* last: the method called last and what it returned.
\* history: written, the frames whose file a process_frame call has written
\* to; returned, the frames whose path one has returned; overwrote, whether
\* one has written to a path already in written or returned
FrameProcessor_new(dir) ==
    [proc |-> [dir |-> dir, frame_count |-> 0], crop_rect |-> FALSE,
     last |-> [name |-> "new", result |-> <<>>],
     written |-> {}, returned |-> {}, overwrote |-> FALSE]

\* the export thread of on_export_click at its first statement (main.rs
\* 390-391) with the session's frame_count and duration_secs (dur eighths
\* of a second) and the list of frame paths it was given (each path kept as
\* the frame it names), n of them; no stage thread exists.
\* history: added, the frames the collector has handed to the encoder;
\* first, the stage that failed first in time
ExportRun_new(frame_count, dur, paths) ==
    [pc |-> "fps", frame_count |-> frame_count, dur |-> dur,
     paths |-> paths, n |-> Len(paths),
     fps |-> ExportDefaultFps,
     collector |-> [st |-> "none", i |-> 0, err |-> "none", joined |-> FALSE,
                    added |-> <<>>],
     writer |-> [st |-> "none", err |-> "none", joined |-> FALSE],
     res |-> None, first |-> "none"]

\* capture_wgc::Rect (lib.rs 47-52): x, y are i32, width, height are u32
Rect(x, y, width, height) == [x |-> x, y |-> y, width |-> width, height |-> height]

\* the ContentSize of a frame
SizeInt32(Width, Height) == [Width |-> Width, Height |-> Height]

\* a selection rect and the size of the frames captured for it; called is
\* the function applied last, copy the region CaptureController::
\* process_frame copies (its extents are u32 values), cropped what
\* FrameData::crop makes of a frame of that size, and crop_rect,
\* recording_rect, monitor what determine_monitor_capture works with
Geometry_new(rect, size) ==
    [rect |-> rect, size |-> size, called |-> "none",
     copy |-> None, cropped |-> None,
     monitor |-> None, crop_rect |-> None, recording_rect |-> None]

\* CaptureController::new (capture.rs 37-46): nothing is held, the running
\* flag is clear.  last: the method called last, its argument and what it
\* returned.
\* history: active, whether a start has returned Ok with no stop since;
\* frames, the frames try_get_frame has handed out
CaptureController_new ==
    [session |-> None, frame_pool |-> None, crop_rect |-> None,
     running |-> FALSE,
     last |-> [name |-> "new", arg |-> "none", result |-> "Ok"],
     active |-> FALSE, frames |-> 0]

InitButGif ==
    /\ ctl = CaptureController_new
    /\ status = "ready"
    /\ ui_fc = 0
    /\ btn = [record |-> TRUE, stop |-> FALSE, export |-> FALSE]
    /\ upd = FALSE
    /\ ui = <<>>
    /\ main_pc = "loop"
    /\ cmdq = <<>>
    /\ resq = <<>>
    /\ w = Worker_new
    /\ rh = [cur |-> None, done |-> FALSE]
    /\ exports = <<>>
    /\ disk = [d \in {} |-> {}]
    /\ next_dir = 0
    /\ peer_sent = 0
    /\ pace = Pacing_new
    /\ fp = FrameProcessor_new(1)

\* no export thread is spawned and nothing is selected
InitButGeo ==
    /\ InitButGif
    /\ gif = ExportRun_new(0, 0, <<>>)

InitSys ==
    /\ InitButGeo
    /\ geo = Geometry_new(Rect(0, 0, 0, 0), SizeInt32(1, 1))

(***************************************************************************)
(* SpecSM: the StateMachine alone, every method callable in every state    *)
(***************************************************************************)
\* the method called and its argument (the directory of the session handed
\* to start_recording, 0 for the other methods)
Call(name, arg) == [name |-> name, arg |-> arg]

InitSM ==
    /\ sm = StateMachine_new
    /\ op = Call("new", 0)
    /\ ret = "unit"
    /\ InitSys

Bool(b) == IF b THEN "true" ELSE "false"

CallBool(name, arg, r) ==
    /\ sm' = r.sm
    /\ op' = Call(name, arg)
    /\ ret' = Bool(r.ok)
    /\ UNCHANGED sysvars

CallUnit(name, m) ==
    /\ sm' = m
    /\ op' = Call(name, 0)
    /\ ret' = "unit"
    /\ UNCHANGED sysvars

SM_start_selecting == CallBool("start_selecting", 0, start_selecting(sm))

SM_start_recording ==
    \E d \in Dirs :
        CallBool("start_recording", d, start_recording(sm, RecordingSession_new(d)))

SM_cancel_selecting == CallBool("cancel_selecting", 0, cancel_selecting(sm))

SM_stop_recording == CallBool("stop_recording", 0, stop_recording(sm))

SM_start_exporting == CallBool("start_exporting", 0, start_exporting(sm))

SM_finish_exporting == CallUnit("finish_exporting", finish_exporting(sm))

SM_cancel_exporting == CallUnit("cancel_exporting", cancel_exporting(sm))

SM_reset == CallUnit("reset", reset(sm))

SM_session_mut ==
    /\ sm.session # None
    /\ \E fc \in 0..MaxFrames, dur \in 0..MaxSecs :
        CallUnit("session_mut", session_set_counts(sm, fc, dur))

\* a query of the current state: `&self`, nothing is written
CallQuery(name, b) ==
    /\ sm' = sm
    /\ op' = Call(name, 0)
    /\ ret' = Bool(b)
    /\ UNCHANGED sysvars

SM_can_record == CallQuery("can_record", can_record(sm.state))

SM_can_stop == CallQuery("can_stop", can_stop(sm.state))

SM_can_export == CallQuery("can_export", can_export(sm.state))

NextSM ==
    \/ SM_can_record
    \/ SM_can_stop
    \/ SM_can_export
    \/ SM_start_selecting
    \/ SM_start_recording
    \/ SM_cancel_selecting
    \/ SM_stop_recording
    \/ SM_start_exporting
    \/ SM_finish_exporting
    \/ SM_cancel_exporting
    \/ SM_reset
    \/ SM_session_mut

SpecSM == InitSM /\ [][NextSM]_vars

(***************************************************************************)
(* UI thread (main.rs on_record_click / on_stop_click / on_export_click,   *)
(* ui.rs wnd_proc / update_state).  A handler runs on the UI thread; while *)
(* it sits in a modal message loop (the picker overlay, the save dialog)   *)
(* the loop dispatches further messages, so activations nest.              *)
(***************************************************************************)
Alive == main_pc # "exited"
Top == ui[Len(ui)]
Pop == SubSeq(ui, 1, Len(ui) - 1)
SetTop(f) == [ui EXCEPT ![Len(ui)] = f]
TopIs(h, pc) == ui # <<>> /\ Top.h = h /\ Top.pc = pc

\* a message loop of the UI thread is retrieving messages
Pumping ==
    /\ main_pc = "loop"
    /\ IF ui = <<>> THEN TRUE ELSE Top.pc \in {"picking", "dialog"}

\* a button click is delivered: posted messages are retrieved before input,
\* the main window is hidden while the picker is shown
CanDispatch ==
    /\ main_pc = "loop"
    /\ ~upd
    /\ IF ui = <<>> THEN TRUE ELSE Top.pc = "dialog"
    /\ Len(ui) < MaxUiDepth

\* crossbeam bounded send: waits for room, fails at once when the receiver
\* (the capture worker) is gone
CanSendCmd == w.pc = "done" \/ Len(cmdq) < QueueCap
SendCmd(c) == IF w.pc = "done" THEN cmdq ELSE Append(cmdq, c)

\* MainWindow::update_state: EnableWindow of the three buttons
update_state(s) ==
    [record |-> can_record(s), stop |-> can_stop(s), export |-> can_export(s)]

UI_Update ==
    /\ Pumping
    /\ upd
    /\ btn' = update_state(sm.state)
    /\ upd' = FALSE
    /\ UNCHANGED <<smvars, status, ui_fc, ui, main_pc, cmdq, resq, w, rh,
                   exports, disk, next_dir, peer_sent, pace, fp, gif, geo, ctl>>

UI_RecordClick ==
    /\ CanDispatch
    /\ btn.record
    /\ ui' = Append(ui, Frame("record", "entry", 0, <<>>, 0, 0))
    /\ UNCHANGED <<smvars, status, ui_fc, btn, upd, main_pc, cmdq, resq, w, rh,
                   exports, disk, next_dir, peer_sent, pace, fp, gif, geo, ctl>>

\* on_record_click, lines 128-135
Rec_Enter ==
    /\ TopIs("record", "entry")
    /\ LET r == start_selecting(sm) IN
        IF r.ok
        THEN /\ sm' = r.sm
             /\ status' = "selecting"
             /\ upd' = TRUE
             /\ ui' = SetTop([Top EXCEPT !.pc = "picking"])
        ELSE /\ ui' = Pop
             /\ UNCHANGED <<sm, status, upd>>
    /\ UNCHANGED <<op, ret, ui_fc, btn, main_pc, cmdq, resq, w, rh, exports,
                   disk, next_dir, peer_sent, pace, fp, gif, geo, ctl>>

\* the picker returns a region or a window: lines 154-160 / 194-199
Rec_Selected ==
    /\ TopIs("record", "picking")
    /\ next_dir < MaxDirs
    /\ next_dir' = next_dir + 1
    /\ disk' = [d \in DOMAIN disk \cup {next_dir + 1} |->
                    IF d = next_dir + 1 THEN {} ELSE disk[d]]
    /\ ui' = SetTop([Top EXCEPT !.pc = "bind", !.dir = next_dir + 1])
    /\ UNCHANGED <<smvars, status, ui_fc, btn, upd, main_pc, cmdq, resq, w, rh,
                   exports, peer_sent, pace, fp, gif, geo, ctl>>

\* the picker is cancelled or fails: lines 226-233
Rec_Cancelled ==
    /\ TopIs("record", "picking")
    /\ sm' = cancel_selecting(sm).sm
    /\ status' = "cancelled"
    /\ upd' = TRUE
    /\ ui' = Pop
    /\ UNCHANGED <<op, ret, ui_fc, btn, main_pc, cmdq, resq, w, rh, exports,
                   disk, next_dir, peer_sent, pace, fp, gif, geo, ctl>>

\* lines 166-179 / 203-216: the result of start_recording is not looked at
Rec_Bind ==
    /\ TopIs("record", "bind")
    /\ sm' = start_recording(sm, RecordingSession_new(Top.dir)).sm
    /\ status' = "recording"
    /\ ui_fc' = 0
    /\ upd' = TRUE
    /\ ui' = SetTop([Top EXCEPT !.pc = "send"])
    /\ UNCHANGED <<op, ret, btn, main_pc, cmdq, resq, w, rh, exports, disk,
                   next_dir, peer_sent, pace, fp, gif, geo, ctl>>

\* lines 187-192 / 219-224, 233
Rec_Send ==
    /\ TopIs("record", "send")
    /\ CanSendCmd
    /\ cmdq' = SendCmd(Cmd("Start", Top.dir, RecordFps))
    /\ upd' = TRUE
    /\ ui' = Pop
    /\ UNCHANGED <<smvars, status, ui_fc, btn, main_pc, resq, w, rh, exports,
                   disk, next_dir, peer_sent, pace, fp, gif, geo, ctl>>

UI_StopClick ==
    /\ CanDispatch
    /\ btn.stop
    /\ ui' = Append(ui, Frame("stop", "send", 0, <<>>, 0, 0))
    /\ UNCHANGED <<smvars, status, ui_fc, btn, upd, main_pc, cmdq, resq, w, rh,
                   exports, disk, next_dir, peer_sent, pace, fp, gif, geo, ctl>>

\* on_stop_click, line 317
Stop_Send ==
    /\ TopIs("stop", "send")
    /\ CanSendCmd
    /\ cmdq' = SendCmd(Cmd("Stop", 0, 0))
    /\ ui' = SetTop([Top EXCEPT !.pc = "lock"])
    /\ UNCHANGED <<smvars, status, ui_fc, btn, upd, main_pc, resq, w, rh,
                   exports, disk, next_dir, peer_sent, pace, fp, gif, geo, ctl>>

\* on_stop_click, lines 319-324: the result of stop_recording is not looked at
Stop_Lock ==
    /\ TopIs("stop", "lock")
    /\ sm' = stop_recording(sm).sm
    /\ status' = "finished"
    /\ upd' = TRUE
    /\ ui' = Pop
    /\ UNCHANGED <<op, ret, ui_fc, btn, main_pc, cmdq, resq, w, rh, exports,
                   disk, next_dir, peer_sent, pace, fp, gif, geo, ctl>>

\* RecordingSession::all_frame_paths, each path kept as the frame it names
all_frame_paths(session) ==
    [i \in 1..session.frame_count |-> FileIndex(session_frame_paths(session)[i])]

\* Path::exists of frame i under directory d
exists(d, i) == d \in DOMAIN disk /\ i \in disk[d]

\* the filter that keeps every path
filter_keeps_all(d, paths) == paths

RECURSIVE filter_exists(_, _)
filter_exists(d, paths) ==
    IF paths = <<>> THEN <<>>
    ELSE IF exists(d, Head(paths))
         THEN <<Head(paths)>> \o filter_exists(d, Tail(paths))
         ELSE filter_exists(d, Tail(paths))

UI_ExportClick ==
    /\ CanDispatch
    /\ btn.export
    /\ ui' = Append(ui, Frame("export", "entry", 0, <<>>, 0, 0))
    /\ UNCHANGED <<smvars, status, ui_fc, btn, upd, main_pc, cmdq, resq, w, rh,
                   exports, disk, next_dir, peer_sent, pace, fp, gif, geo, ctl>>

\* on_export_click, lines 331-342
Exp_Read ==
    /\ TopIs("export", "entry")
    /\ IF sm.session = None
       THEN ui' = Pop
       ELSE LET session == sm.session[1] IN
            ui' = SetTop(Frame("export", "check", session.temp_dir,
                               all_frame_paths(session), session.frame_count,
                               session.duration_secs))
    /\ UNCHANGED <<smvars, status, ui_fc, btn, upd, main_pc, cmdq, resq, w, rh,
                   exports, disk, next_dir, peer_sent, pace, fp, gif, geo, ctl>>

\* on_export_click, lines 345-363
Exp_Check ==
    /\ TopIs("export", "check")
    /\ LET valid == filter_exists(Top.dir, Top.paths) IN
        IF Top.fc = 0 \/ Top.paths = <<>>
        THEN /\ status' = "noframes"
             /\ upd' = TRUE
             /\ ui' = Pop
        ELSE IF valid = <<>>
        THEN /\ status' = "nofiles"
             /\ upd' = TRUE
             /\ ui' = Pop
        ELSE /\ ui' = SetTop([Top EXCEPT !.pc = "dialog", !.paths = valid])
             /\ UNCHANGED <<status, upd>>
    /\ UNCHANGED <<smvars, ui_fc, btn, main_pc, cmdq, resq, w, rh, exports,
                   disk, next_dir, peer_sent, pace, fp, gif, geo, ctl>>

\* the save dialog is dismissed: lines 375-378
Exp_DialogCancel ==
    /\ TopIs("export", "dialog")
    /\ ui' = Pop
    /\ UNCHANGED <<smvars, status, ui_fc, btn, upd, main_pc, cmdq, resq, w, rh,
                   exports, disk, next_dir, peer_sent, pace, fp, gif, geo, ctl>>

\* stages: stage threads running; created: the writer has created the output
\* file.
\* history: sm0 is the state machine when the thread was spawned, started
\* whether start_exporting returned true
ExportThread(dir, paths, fc, dur, sm0, started) ==
    [dir |-> dir, paths |-> paths, fc |-> fc, dur |-> dur,
     phase |-> "spawned", stages |-> 0, created |-> FALSE, res |-> "none",
     sm0 |-> sm0, started |-> started]

\* a path is chosen: lines 381-390; the result of start_exporting is not
\* looked at and the export thread is spawned in any case
Exp_DialogSave ==
    /\ TopIs("export", "dialog")
    /\ Len(exports) < MaxExports
    /\ sm' = start_exporting(sm).sm
    /\ status' = "exporting"
    /\ upd' = TRUE
    /\ exports' = Append(exports,
            ExportThread(Top.dir, Top.paths, Top.fc, Top.dur,
                         start_exporting(sm).sm, start_exporting(sm).ok))
    /\ ui' = Pop
    /\ UNCHANGED <<op, ret, ui_fc, btn, main_pc, cmdq, resq, w, rh, disk,
                   next_dir, peer_sent, pace, fp, gif, geo, ctl>>

\* the window is destroyed from the tray menu: the message loop of main ends
UI_Exit ==
    /\ main_pc = "loop"
    /\ ui = <<>>
    /\ main_pc' = "shutdown"
    /\ UNCHANGED <<smvars, status, ui_fc, btn, upd, ui, cmdq, resq, w, rh,
                   exports, disk, next_dir, peer_sent, pace, fp, gif, geo, ctl>>

\* main, line 108
Main_SendShutdown ==
    /\ main_pc = "shutdown"
    /\ CanSendCmd
    /\ cmdq' = SendCmd(Cmd("Shutdown", 0, 0))
    /\ main_pc' = "join_worker"
    /\ UNCHANGED <<smvars, status, ui_fc, btn, upd, ui, resq, w, rh, exports,
                   disk, next_dir, peer_sent, pace, fp, gif, geo, ctl>>

\* main, lines 109-112
Main_Join ==
    /\ \/ main_pc = "join_worker" /\ w.pc = "done" /\ main_pc' = "join_handler"
       \/ main_pc = "join_handler" /\ rh.done /\ main_pc' = "exited"
    /\ UNCHANGED <<smvars, status, ui_fc, btn, upd, ui, cmdq, resq, w, rh,
                   exports, disk, next_dir, peer_sent, pace, fp, gif, geo, ctl>>

(***************************************************************************)
(* capture_worker (main.rs 429-530).  Time is counted in pacing intervals: *)
(* since_frame is the time since last_frame_time (it only matters whether  *)
(* one interval has passed), start_time holds the time since the Instant   *)
(* it stores.  frame_interval is held as the rate it is computed from.     *)
(***************************************************************************)
Min(a, b) == IF a < b THEN a ELSE b

\* RoInitialize, lines 430-435
W_Init ==
    /\ Alive
    /\ w.pc = "init"
    /\ \/ w' = [w EXCEPT !.pc = "recv"]
       \/ w' = [w EXCEPT !.pc = "fail", !.out = Some(Event("Error", 0, 0, 0))]
    /\ UNCHANGED <<smvars, status, ui_fc, btn, upd, ui, main_pc, cmdq, resq, rh,
                   exports, disk, next_dir, peer_sent, pace, fp, gif, geo, ctl>>

\* result_tx.send: waits while the event channel is full
W_Send ==
    /\ Alive
    /\ w.out # None
    /\ Len(resq) < QueueCap
    /\ resq' = Append(resq, w.out[1])
    /\ w' = [w EXCEPT !.out = None, !.pc = IF w.pc = "fail" THEN "done" ELSE w.pc,
                      !.attempt = "none"]
    /\ UNCHANGED <<smvars, status, ui_fc, btn, upd, ui, main_pc, cmdq, rh,
                   exports, disk, next_dir, peer_sent, pace, fp, gif, geo, ctl>>

\* after a command the loop goes on to its capture part (lines 498-521), which
\* does nothing unless running is set, then sleeps and polls again
AfterCommand(running) == IF running THEN "capture" ELSE "recv"

AtRecv == Alive /\ w.pc = "recv" /\ w.out = None

\* try_recv finds no command, line 494
W_RecvEmpty ==
    /\ AtRecv
    /\ cmdq = <<>>
    /\ w' = [w EXCEPT !.pc = AfterCommand(w.running)]
    /\ UNCHANGED <<smvars, status, ui_fc, btn, upd, ui, main_pc, cmdq, resq, rh,
                   exports, disk, next_dir, peer_sent, pace, fp, gif, geo, ctl>>

\* a Start branch that stores the controller before it has been started, so
\* that a failed start leaves it behind with the running flag set
StartBranch_stores_early(wk, c, outcome) ==
    CASE outcome = "new_fails" ->
            [wk EXCEPT !.out = Some(Event("Error", 0, 0, c.dir)),
                       !.pc = AfterCommand(wk.running),
                       !.attempt = outcome]
      [] outcome = "start_fails" ->
            [wk EXCEPT !.controller = TRUE,
                       !.running = TRUE,
                       !.out = Some(Event("Error", 0, 0, c.dir)), !.pc = "recv",
                       !.attempt = outcome]
      [] OTHER ->
            [wk EXCEPT !.controller = TRUE,
                       !.processor = Some([dir |-> c.dir, frame_count |-> 0]),
                       !.running = TRUE,
                       !.frame_interval = c.fps,
                       !.since_frame = 0,
                       !.start_time = Some(0),
                       !.last_progress_secs = 0,
                       !.out = Some(Event("Started", 0, 0, c.dir)),
                       !.pc = "capture",
                       !.attempt = outcome,
                       !.persisted = 0]

\* the Start branch, lines 448-475, for each outcome of CaptureController::new
\* and CaptureController::start
StartBranch(wk, c, outcome) ==
    CASE outcome = "new_fails" ->
            [wk EXCEPT !.out = Some(Event("Error", 0, 0, c.dir)),
                       !.pc = AfterCommand(wk.running),
                       !.attempt = outcome]
      [] outcome = "start_fails" ->
            [wk EXCEPT !.out = Some(Event("Error", 0, 0, c.dir)), !.pc = "recv",
                       !.attempt = outcome]
      [] OTHER ->
            [wk EXCEPT !.controller = TRUE,
                       !.processor = Some([dir |-> c.dir, frame_count |-> 0]),
                       !.running = TRUE,
                       !.frame_interval = c.fps,
                       !.since_frame = 0,
                       !.start_time = Some(0),
                       !.last_progress_secs = 0,
                       !.out = Some(Event("Started", 0, 0, c.dir)),
                       !.pc = "capture",
                       !.attempt = outcome,
                       !.persisted = 0]

W_Start ==
    /\ AtRecv
    /\ cmdq # <<>>
    /\ Head(cmdq).type = "Start"
    /\ cmdq' = Tail(cmdq)
    /\ \E outcome \in {"ok", "new_fails", "start_fails"} :
            w' = StartBranch(w, Head(cmdq), outcome)
    /\ UNCHANGED <<smvars, status, ui_fc, btn, upd, ui, main_pc, resq, rh,
                   exports, disk, next_dir, peer_sent, pace, fp, gif, geo, ctl>>

\* a Stop branch that reports an error when there is no run to stop
StopBranch_errors_when_idle(wk) ==
    IF wk.running
    THEN [wk EXCEPT !.controller = FALSE,
                    !.processor = None,
                    !.running = FALSE,
                    !.start_time = None,
                    !.out = Some(Event("Stopped", wk.processor[1].frame_count,
                                       wk.start_time[1], wk.processor[1].dir)),
                    !.pc = AfterCommand(FALSE)]
    ELSE [wk EXCEPT !.out = Some(Event("Error", 0, 0, 0)),
                    !.pc = AfterCommand(FALSE)]

\* a Stop branch that leaves start_time set
StopBranch_keeps_start_time(wk) ==
    [wk EXCEPT !.controller = FALSE,
               !.processor = None,
               !.running = FALSE,
               !.out = Some(Event("Stopped", 0, 0, 0)),
               !.pc = AfterCommand(FALSE)]

\* the Stop branch, lines 476-490
StopBranch(wk) ==
    LET frame_count == IF wk.processor = None THEN 0
                       ELSE wk.processor[1].frame_count
        duration_secs == IF wk.start_time = None THEN 0 ELSE wk.start_time[1]
        run == IF wk.processor = None THEN 0 ELSE wk.processor[1].dir
    IN [wk EXCEPT !.controller = FALSE,
                  !.processor = None,
                  !.running = FALSE,
                  !.start_time = None,
                  !.out = Some(Event("Stopped", frame_count, duration_secs, run)),
                  !.pc = AfterCommand(FALSE)]

W_Stop ==
    /\ AtRecv
    /\ cmdq # <<>>
    /\ Head(cmdq).type = "Stop"
    /\ cmdq' = Tail(cmdq)
    /\ w' = StopBranch(w)
    /\ UNCHANGED <<smvars, status, ui_fc, btn, upd, ui, main_pc, resq, rh,
                   exports, disk, next_dir, peer_sent, pace, fp, gif, geo, ctl>>

\* a Shutdown branch that ends the loop only when no run is active
W_Shutdown_only_when_idle ==
    /\ AtRecv
    /\ cmdq # <<>>
    /\ Head(cmdq).type = "Shutdown"
    /\ cmdq' = Tail(cmdq)
    /\ w' = IF w.running
            THEN [w EXCEPT !.pc = "capture"]
            ELSE [w EXCEPT !.pc = "done", !.controller = FALSE,
                           !.processor = None]
    /\ UNCHANGED <<smvars, status, ui_fc, btn, upd, ui, main_pc, resq, rh,
                   exports, disk, next_dir, peer_sent, pace, fp, gif, geo, ctl>>

\* the Shutdown branch, lines 491-493: the loop ends, the locals are dropped
W_Shutdown ==
    /\ AtRecv
    /\ cmdq # <<>>
    /\ Head(cmdq).type = "Shutdown"
    /\ cmdq' = Tail(cmdq)
    /\ w' = [w EXCEPT !.pc = "done", !.controller = FALSE, !.processor = None]
    /\ UNCHANGED <<smvars, status, ui_fc, btn, upd, ui, main_pc, resq, rh,
                   exports, disk, next_dir, peer_sent, pace, fp, gif, geo, ctl>>

\* process_frame that counts a frame whose file could not be written
process_frame_counts_failed(proc, wrote) ==
    [proc EXCEPT !.frame_count = proc.frame_count + 1]

\* process_frame that skips an index after a failed write
process_frame_skips_failed(proc, wrote) ==
    [proc EXCEPT !.frame_count = proc.frame_count + (IF wrote THEN 1 ELSE 2)]

\* FrameProcessor::process_frame (frame.rs 85-99): the file of index
\* frame_count is written, then the count grows; a failed write changes nothing
process_frame(proc, wrote) ==
    IF wrote THEN [proc EXCEPT !.frame_count = proc.frame_count + 1] ELSE proc

\* a capture part that ends the run with an Error when the frame file
\* cannot be written
CaptureStep_aborts_on_failure(wk, frame) ==
    IF frame = "write_fails"
    THEN [wk EXCEPT !.running = FALSE,
                    !.out = Some(Event("Error", 0, 0, 0)),
                    !.pc = "recv"]
    ELSE [wk EXCEPT !.pc = "recv", !.out = None]

\* the capture part of one loop iteration, lines 498-521.
\* frame: what try_get_frame and process_frame do on this iteration
CaptureStep(wk, frame) ==
    LET proc == wk.processor[1]
        got == frame # "none"
        proc2 == IF got THEN process_frame(proc, frame = "ok") ELSE proc
        elapsed_secs == wk.start_time[1] \div TicksPerSec
        progress == wk.start_time # None /\ elapsed_secs > wk.last_progress_secs
    IN [wk EXCEPT !.processor = IF wk.processor = None THEN None ELSE Some(proc2),
                  !.since_frame = IF got THEN 0 ELSE wk.since_frame,
                  !.last_progress_secs = IF progress THEN elapsed_secs
                                         ELSE wk.last_progress_secs,
                  !.out = IF progress
                          THEN Some(Event("Progress",
                                    IF wk.processor = None THEN 0
                                    ELSE proc2.frame_count,
                                    elapsed_secs,
                                    IF wk.processor = None THEN 0 ELSE proc2.dir))
                          ELSE None,
                  !.pc = "recv",
                  !.persisted = IF frame = "ok" THEN wk.persisted + 1
                                ELSE wk.persisted]

\* a frame can be fetched only by a held controller and processor once the
\* pacing interval has passed (line 502); the count is capped at MaxFrames
CanFetch(wk) ==
    /\ wk.controller
    /\ wk.processor # None
    /\ wk.since_frame >= 1
    /\ wk.processor[1].frame_count < MaxFrames

W_Capture ==
    /\ Alive
    /\ w.pc = "capture"
    /\ w.out = None
    /\ w.running
    /\ \E frame \in {"none", "ok", "write_fails"} :
        /\ frame # "none" => CanFetch(w)
        /\ frame = "ok" => w.processor[1].dir \in DOMAIN disk
        /\ w' = CaptureStep(w, frame)
        /\ disk' = IF frame = "ok"
                   THEN [disk EXCEPT ![w.processor[1].dir] =
                            @ \cup {w.processor[1].frame_count}]
                   ELSE disk
    /\ UNCHANGED <<smvars, status, ui_fc, btn, upd, ui, main_pc, cmdq, resq, rh,
                   exports, next_dir, peer_sent, pace, fp, gif, geo, ctl>>

\* one pacing interval passes during a capture run (time is capped at MaxTicks)
W_Tick ==
    /\ Alive
    /\ w.start_time # None
    /\ IF w.since_frame < 1 THEN TRUE ELSE w.start_time[1] < MaxTicks
    /\ w' = [w EXCEPT !.since_frame = 1,
                      !.start_time = Some(Min(w.start_time[1] + 1, MaxTicks))]
    /\ UNCHANGED <<smvars, status, ui_fc, btn, upd, ui, main_pc, cmdq, resq, rh,
                   exports, disk, next_dir, peer_sent, pace, fp, gif, geo, ctl>>

(***************************************************************************)
(* result_handler (main.rs 532-580)                                        *)
(***************************************************************************)
RH_Recv ==
    /\ Alive
    /\ ~rh.done
    /\ rh.cur = None
    /\ resq # <<>>
    /\ rh' = [rh EXCEPT !.cur = Some(Head(resq))]
    /\ resq' = Tail(resq)
    /\ UNCHANGED <<smvars, status, ui_fc, btn, upd, ui, main_pc, cmdq, w,
                   exports, disk, next_dir, peer_sent, pace, fp, gif, geo, ctl>>

\* recv fails once the worker has dropped its sender and the channel is empty
RH_Exit ==
    /\ Alive
    /\ ~rh.done
    /\ rh.cur = None
    /\ resq = <<>>
    /\ w.pc = "done"
    /\ rh' = [rh EXCEPT !.done = TRUE]
    /\ UNCHANGED <<smvars, status, ui_fc, btn, upd, ui, main_pc, cmdq, resq, w,
                   exports, disk, next_dir, peer_sent, pace, fp, gif, geo, ctl>>

Handling(t) == Alive /\ rh.cur # None /\ rh.cur[1].type = t

RH_Started ==
    /\ Handling("Started")
    /\ rh' = [rh EXCEPT !.cur = None]
    /\ UNCHANGED <<smvars, status, ui_fc, btn, upd, ui, main_pc, cmdq, resq, w,
                   exports, disk, next_dir, peer_sent, pace, fp, gif, geo, ctl>>

RH_Progress ==
    /\ Handling("Progress")
    /\ rh' = [rh EXCEPT !.cur = None]
    /\ IF sm.state = "Recording"
       THEN /\ ui_fc' = rh.cur[1].frame_count
            /\ status' = "progress"
            /\ upd' = TRUE
       ELSE UNCHANGED <<ui_fc, status, upd>>
    /\ UNCHANGED <<smvars, btn, ui, main_pc, cmdq, resq, w, exports, disk,
                   next_dir, peer_sent, pace, fp, gif, geo, ctl>>

RH_Stopped ==
    /\ Handling("Stopped")
    /\ rh' = [rh EXCEPT !.cur = None]
    /\ ui_fc' = rh.cur[1].frame_count
    /\ sm' = session_set_counts(sm, rh.cur[1].frame_count, rh.cur[1].secs)
    /\ status' = "stopped"
    /\ upd' = TRUE
    /\ UNCHANGED <<op, ret, btn, ui, main_pc, cmdq, resq, w, exports, disk,
                   next_dir, peer_sent, pace, fp, gif, geo, ctl>>

\* std::fs::remove_dir_all
remove_dir_all(dk, d) == [x \in DOMAIN dk \ {d} |-> dk[x]]

RH_Error ==
    /\ Handling("Error")
    /\ rh' = [rh EXCEPT !.cur = None]
    /\ status' = "error"
    /\ disk' = IF sm.session # None
               THEN remove_dir_all(disk, sm.session[1].temp_dir)
               ELSE disk
    /\ sm' = reset(sm)
    /\ upd' = TRUE
    /\ UNCHANGED <<op, ret, ui_fc, btn, ui, main_pc, cmdq, resq, w, exports,
                   next_dir, peer_sent, pace, fp, gif, geo, ctl>>

(***************************************************************************)
(* the export thread of on_export_click (main.rs 390-426) and the entry    *)
(* of GifExporter::export_from_pngs (gif.rs 168-224)                       *)
(***************************************************************************)
XAt(k, phase) == Alive /\ k \in 1..Len(exports) /\ exports[k].phase = phase

\* export_from_pngs without its check for an empty list
export_from_pngs_enter_unchecked(x) == [x EXCEPT !.phase = "encoding", !.stages = 2]

\* export_from_pngs up to the spawn of the collector and the writer thread
export_from_pngs_enter(x) ==
    IF x.paths = <<>>
    THEN [x EXCEPT !.phase = "returned", !.res = "NoFrames"]
    ELSE [x EXCEPT !.phase = "encoding", !.stages = 2]

X_Call(k) ==
    /\ XAt(k, "spawned")
    /\ exports' = [exports EXCEPT ![k] = export_from_pngs_enter(@)]
    /\ UNCHANGED <<smvars, status, ui_fc, btn, upd, ui, main_pc, cmdq, resq, w,
                   rh, disk, next_dir, peer_sent, pace, fp, gif, geo, ctl>>

\* the stage threads are joined (gif.rs 217-223); the encode succeeds only
\* if every frame file could be opened; an error of the collector is
\* returned before the writer is joined, which may then still run
X_Join(k) ==
    /\ XAt(k, "encoding")
    /\ \E r \in {"Ok", "Err"}, created \in BOOLEAN, left \in {0, 1} :
        /\ r = "Ok" => /\ created
                       /\ left = 0
                       /\ \A i \in 1..Len(exports[k].paths) :
                            exists(exports[k].dir, exports[k].paths[i])
        /\ exports' = [exports EXCEPT ![k] =
                            [@ EXCEPT !.phase = "returned", !.stages = left,
                                      !.created = created, !.res = r]]
    /\ UNCHANGED <<smvars, status, ui_fc, btn, upd, ui, main_pc, cmdq, resq, w,
                   rh, disk, next_dir, peer_sent, pace, fp, gif, geo, ctl>>

\* the writer thread left behind by an error return ends (gif.rs 210-215)
X_StageEnd(k) ==
    /\ Alive
    /\ k \in 1..Len(exports)
    /\ exports[k].phase \in {"returned", "reported"}
    /\ exports[k].stages > 0
    /\ exports' = [exports EXCEPT ![k].stages = @ - 1]
    /\ UNCHANGED <<smvars, status, ui_fc, btn, upd, ui, main_pc, cmdq, resq, w,
                   rh, disk, next_dir, peer_sent, pace, fp, gif, geo, ctl>>

\* a thread that has ended: only its directory and result are kept
Reported(x) ==
    [x EXCEPT !.phase = "reported", !.paths = <<>>, !.fc = 0, !.dur = 0,
              !.sm0 = StateMachine_new, !.started = FALSE]

\* main.rs 408-425
X_Report(k) ==
    /\ XAt(k, "returned")
    /\ exports' = [exports EXCEPT ![k] = Reported(@)]
    /\ IF exports[k].res = "Ok"
       THEN LET m == finish_exporting(sm) IN
            /\ sm' = m
            /\ status' = "exported"
            /\ disk' = IF m.session # None
                       THEN remove_dir_all(disk, m.session[1].temp_dir)
                       ELSE disk
       ELSE /\ sm' = cancel_exporting(sm)
            /\ status' = "failed"
            /\ disk' = disk
    /\ upd' = TRUE
    /\ UNCHANGED <<op, ret, ui_fc, btn, ui, main_pc, cmdq, resq, w, rh, next_dir, peer_sent, pace, fp, gif, geo, ctl>>

(***************************************************************************)
(* Spec: the whole program                                                 *)
(***************************************************************************)
Init ==
    /\ sm = StateMachine_new
    /\ op = Call("new", 0)
    /\ ret = "unit"
    /\ InitSys

Next ==
    \/ UI_Update
    \/ UI_RecordClick
    \/ Rec_Enter
    \/ Rec_Selected
    \/ Rec_Cancelled
    \/ Rec_Bind
    \/ Rec_Send
    \/ UI_StopClick
    \/ Stop_Send
    \/ Stop_Lock
    \/ UI_ExportClick
    \/ Exp_Read
    \/ Exp_Check
    \/ Exp_DialogCancel
    \/ Exp_DialogSave
    \/ W_Init
    \/ W_Send
    \/ W_RecvEmpty
    \/ W_Start
    \/ W_Stop
    \/ W_Capture
    \/ W_Tick
    \/ RH_Recv
    \/ RH_Started
    \/ RH_Progress
    \/ RH_Stopped
    \/ RH_Error
    \/ \E k \in 1..MaxExports : X_Call(k) \/ X_Join(k) \/ X_Report(k) \/ X_StageEnd(k)

Spec == Init /\ [][Next]_vars

(***************************************************************************)
(* SpecExit: the whole program including the end of the process            *)
(***************************************************************************)
NextExit ==
    \/ Next
    \/ UI_Exit
    \/ Main_SendShutdown
    \/ Main_Join
    \/ W_Shutdown
    \/ RH_Exit

SpecExit == Init /\ [][NextExit]_vars

(***************************************************************************)
(* SpecWorker: capture_worker alone.  Its two channel peers are reduced to *)
(* what they do to the channels: the UI thread and main send commands      *)
(* (main.rs 187, 219, 317, 108), the event handler receives events (539).  *)
(***************************************************************************)
\* the sender of Start: a fresh directory is created, then Start is sent with
\* a target_fps (on_record_click lines 156-160, 187; the fps field is a u8)
PeerFps == {DefaultFps, 2 * DefaultFps}

Peer_SendStart ==
    /\ peer_sent < MaxCmds
    /\ peer_sent' = peer_sent + 1
    /\ Len(cmdq) < QueueCap
    /\ w.pc # "done"
    /\ next_dir < MaxDirs
    /\ next_dir' = next_dir + 1
    /\ \E fps \in PeerFps : cmdq' = Append(cmdq, Cmd("Start", next_dir + 1, fps))
    /\ disk' = [d \in DOMAIN disk \cup {next_dir + 1} |->
                    IF d = next_dir + 1 THEN {} ELSE disk[d]]
    /\ UNCHANGED <<smvars, status, ui_fc, btn, upd, ui, main_pc, resq, w, rh,
                   exports, pace, fp, gif, geo, ctl>>

\* on_stop_click, line 317
Peer_SendStop ==
    /\ peer_sent < MaxCmds
    /\ peer_sent' = peer_sent + 1
    /\ Len(cmdq) < QueueCap
    /\ w.pc # "done"
    /\ cmdq' = Append(cmdq, Cmd("Stop", 0, 0))
    /\ UNCHANGED <<smvars, status, ui_fc, btn, upd, ui, main_pc, resq, w, rh,
                   exports, disk, next_dir, pace, fp, gif, geo, ctl>>

\* main, line 108
Peer_SendShutdown ==
    /\ peer_sent < MaxCmds
    /\ peer_sent' = peer_sent + 1
    /\ Len(cmdq) < QueueCap
    /\ w.pc # "done"
    /\ main_pc = "loop"
    /\ cmdq' = Append(cmdq, Cmd("Shutdown", 0, 0))
    /\ main_pc' = "join_worker"
    /\ UNCHANGED <<smvars, status, ui_fc, btn, upd, ui, resq, w, rh, exports,
                   disk, next_dir, pace, fp, gif, geo, ctl>>

\* result_handler, line 539
Peer_Recv ==
    /\ resq # <<>>
    /\ resq' = Tail(resq)
    /\ UNCHANGED <<smvars, status, ui_fc, btn, upd, ui, main_pc, cmdq, w, rh,
                   exports, disk, next_dir, peer_sent, pace, fp, gif, geo, ctl>>

NextWorker ==
    \/ Peer_SendStart
    \/ Peer_SendStop
    \/ Peer_SendShutdown
    \/ Peer_Recv
    \/ W_Init
    \/ W_Send
    \/ W_RecvEmpty
    \/ W_Start
    \/ W_Stop
    \/ W_Shutdown
    \/ W_Capture
    \/ W_Tick

SpecWorker == Init /\ [][NextWorker]_vars

(***************************************************************************)
(* Properties of the state machine (SpecSM)                                *)
(***************************************************************************)
\* section 4.1: the states in which a transition is listed as legal
LegalIn(name) ==
    CASE name = "start_selecting" -> {"Idle", "Recorded"}
      [] name = "start_recording" -> {"Selecting"}
      [] name = "cancel_selecting" -> {"Selecting"}
      [] name = "stop_recording" -> {"Recording"}
      [] name = "start_exporting" -> {"Recorded"}
      [] name = "finish_exporting" -> {"Exporting"}
      [] name = "cancel_exporting" -> {"Exporting"}
      [] name = "reset" -> AppState
      [] OTHER -> {}

GuardedTransitions ==
    {"start_selecting", "start_recording", "cancel_selecting", "stop_recording",
     "start_exporting", "cancel_exporting"}

\* C1: start_selecting, start_recording, cancel_selecting, stop_recording,
\* start_exporting and cancel_exporting, called in a state where section 4.1
\* does not list them as legal, leave state and session as they were, and the
\* bool-returning ones return false.
C1_IllegalTransitionIsNoOp ==
    [][(op'.name \in GuardedTransitions /\ sm.state \notin LegalIn(op'.name))
        => /\ sm' = sm
           /\ ret' = IF op'.name = "cancel_exporting" THEN "unit" ELSE "false"]_vars

\* an illegal start_selecting was called while exporting a session
C1_Witness ==
    /\ op.name = "start_selecting"
    /\ ret = "false"
    /\ sm.state = "Exporting"
    /\ sm.session # None

\* C3: every legal transition yields the target state and the session effect
\* of the table of section 4.1, as a function of (state, operation) alone.
C3_LegalTransitionMatchesTable ==
    [][sm.state \in LegalIn(op'.name) =>
        CASE op'.name = "start_selecting" ->
                sm' = [state |-> "Selecting", session |-> sm.session] /\ ret' = "true"
          [] op'.name = "start_recording" ->
                /\ sm' = [state |-> "Recording",
                          session |-> Some(RecordingSession_new(op'.arg))]
                /\ ret' = "true"
          [] op'.name = "cancel_selecting" ->
                sm' = [state |-> "Idle", session |-> sm.session] /\ ret' = "true"
          [] op'.name = "stop_recording" ->
                sm' = [state |-> "Recorded", session |-> sm.session] /\ ret' = "true"
          [] op'.name = "start_exporting" ->
                sm' = [state |-> "Exporting", session |-> sm.session] /\ ret' = "true"
          [] op'.name = "finish_exporting" ->
                sm' = [state |-> "Idle", session |-> None]
          [] op'.name = "cancel_exporting" ->
                sm' = [state |-> "Recorded", session |-> sm.session]
          [] op'.name = "reset" ->
                sm' = [state |-> "Idle", session |-> None]]_vars

\* stop_recording was called while recording a session whose counts were set
C3_Witness ==
    /\ op.name = "stop_recording"
    /\ ret = "true"
    /\ sm.state = "Recorded"
    /\ sm.session # None
    /\ sm.session[1].frame_count > 0

\* C4: finish_exporting called in Idle, Selecting, Recording or Recorded
\* changes neither the state nor the session.
C4_FinishOnlyFromExporting ==
    [][(op'.name = "finish_exporting" /\ sm.state # "Exporting") => sm' = sm]_vars

(***************************************************************************)
(* Properties of the whole program (Spec)                                  *)
(***************************************************************************)
\* C2: a session is present if and only if the state is Recording, Recorded
\* or Exporting.
C2_SessionIffRecordingStates ==
    (sm.session # None) <=> (sm.state \in {"Recording", "Recorded", "Exporting"})

ReportStep(k) ==
    /\ k <= Len(exports)
    /\ exports[k].phase = "returned"
    /\ exports'[k].phase = "reported"

\* C7: after an export whose encoder pipeline returned success the state is
\* Idle, the session is cleared and the temp directory of the exported
\* session is gone from disk.
C7_SuccessfulExportCleansUp ==
    [][\A k \in 1..MaxExports :
        (ReportStep(k) /\ exports[k].res = "Ok")
            => /\ sm' = [state |-> "Idle", session |-> None]
               /\ exports[k].dir \notin DOMAIN disk']_vars

\* C8: after an export (begun by a successful start_exporting) whose encoder
\* pipeline returned an error, the state is Recorded and the session is the
\* one the export started with.
C8_FailedExportKeepsSession ==
    [][\A k \in 1..MaxExports :
        (ReportStep(k) /\ exports[k].res # "Ok" /\ exports[k].started)
            => /\ sm'.state = "Recorded"
               /\ sm'.session = exports[k].sm0.session]_vars

WorkerTakes(t) ==
    IF cmdq = <<>> THEN FALSE
    ELSE Head(cmdq).type = t /\ cmdq' = Tail(cmdq) /\ w' # w

\* C5: when the worker handles a Start and the construction or the start of
\* the Frame Source fails, it emits exactly one Error event and leaves its
\* controller, processor, running flag, pacing interval, start time and
\* progress counter as they were; no Started is emitted and nothing is left
\* running for the failed attempt.
C5_FailedStartChangesNothing ==
    [][(WorkerTakes("Start") /\ w'.attempt \in {"new_fails", "start_fails"})
        => /\ w'.out = Some(Event("Error", 0, 0, Head(cmdq).dir))
           /\ resq' = resq
           /\ w'.controller = w.controller
           /\ w'.processor = w.processor
           /\ w'.running = w.running
           /\ w'.frame_interval = w.frame_interval
           /\ w'.since_frame = w.since_frame
           /\ w'.start_time = w.start_time
           /\ w'.last_progress_secs = w.last_progress_secs
           /\ disk' = disk]_vars

\* a Start failed at CaptureController::start while an earlier run, started
\* with another pacing interval, was active: its Error is about to be sent
C5_Witness ==
    /\ w.attempt = "start_fails"
    /\ w.out # None
    /\ w.running
    /\ w.frame_interval # DefaultFps

\* C6: when the worker handles Stop during an active run it releases the
\* Frame Source, emits one Stopped whose frame_count is the number of frames
\* persisted since the matching Start, and becomes idle: while it is idle no
\* frame file is written and no Progress is emitted.
C6_StopEndsTheRun ==
    [][/\ (WorkerTakes("Stop") /\ w.running)
            => /\ ~w'.controller
               /\ ~w'.running
               /\ w'.processor = None
               /\ w'.out # None
               /\ w'.out[1].type = "Stopped"
               /\ w'.out[1].frame_count = w.persisted
               /\ resq' = resq
       /\ (~w.running /\ ~w'.running)
            => /\ \A d \in DOMAIN disk : d \in DOMAIN disk' /\ disk'[d] = disk[d]
               /\ (w'.out # w.out /\ w'.out # None) => w'.out[1].type # "Progress"
               /\ w'.persisted = w.persisted]_vars

\* a run in which a frame was persisted has been stopped: its Stopped event
\* is about to be sent and the worker is idle
C6_Witness ==
    /\ w.out # None
    /\ w.out[1].type = "Stopped"
    /\ w.out[1].frame_count >= 1
    /\ ~w.running
    /\ ~w.controller

(***************************************************************************)
(* Properties of the export path (Spec)                                    *)
(***************************************************************************)
\* the frame of on_export_click holds no valid frame
NoValidFrames(f) ==
    f.fc = 0 \/ f.paths = <<>> \/ filter_exists(f.dir, f.paths) = <<>>

AtExportCheck == IF ui = <<>> THEN FALSE ELSE Top.h = "export" /\ Top.pc = "check"

\* C10: when the session frame_count is 0 or none of the expected frame files
\* exists, on_export_click ends with a no-frames status without performing
\* start_exporting or spawning the export thread, and the state is unchanged;
\* export_from_pngs given an empty list returns NoFrames with no stage thread
\* started and no output file created; the thread on_export_click spawns is
\* never given an empty list.
C10_NoFramesBeforeEncoding ==
    /\ [][(AtExportCheck /\ NoValidFrames(Top) /\ ui' # ui)
            => /\ status' \in {"noframes", "nofiles"}
               /\ exports' = exports
               /\ sm' = sm
               /\ disk' = disk]_vars
    /\ [](\A d \in Dirs, fc \in 0..MaxFrames, started \in BOOLEAN :
            LET x == export_from_pngs_enter(
                        ExportThread(d, <<>>, fc, 0, sm, started))
            IN x.phase = "returned" /\ x.res = "NoFrames"
               /\ x.stages = 0 /\ ~x.created)
    /\ [](\A k \in 1..Len(exports) :
            exports[k].phase \in {"spawned", "encoding"} => exports[k].paths # <<>>)

\* on_export_click found that none of the expected frame files exists and
\* ended with the no-files status; nothing was exported
C10_Witness ==
    /\ status = "nofiles"
    /\ exports = <<>>
    /\ ui = <<>>

(***************************************************************************)
(* SpecPacing: the rate limiting of capture_worker (main.rs 464-466 and    *)
(* 498-508) on a clock finer than the pacing interval.  Every Instant::now *)
(* reads pace.now; the clock moves between any two steps.                  *)
(***************************************************************************)
UnchangedButPace ==
    UNCHANGED <<smvars, status, ui_fc, btn, upd, ui, main_pc, cmdq, resq, w, rh,
                exports, disk, next_dir, peer_sent, fp, gif, geo, ctl>>

P_Tick ==
    /\ pace.now < MaxClock
    /\ pace' = [pace EXCEPT !.now = pace.now + 1]
    /\ UnchangedButPace

\* Start, lines 457-465: a fresh processor, running, frame_interval,
\* last_frame_time
P_Start ==
    /\ pace.pc = "loop"
    /\ \E interval \in MinInterval..MaxInterval :
        pace' = [pace EXCEPT !.running = TRUE,
                             !.frame_count = 0,
                             !.emitted = <<>>,
                             !.frame_interval = interval,
                             !.last_frame_time = pace.now,
                             !.polled = None,
                             !.repolled = FALSE,
                             !.pc = "start2"]
    /\ UnchangedButPace

\* Start, lines 466-467: start_time is read from the clock after
\* last_frame_time; last_progress_secs
P_StartTime ==
    /\ pace.pc = "start2"
    /\ pace' = [pace EXCEPT !.start_time = Some(pace.now),
                            !.last_progress_secs = 0,
                            !.frames = 0,
                            !.prev = None,
                            !.pc = "loop"]
    /\ UnchangedButPace

\* Stop, lines 485-487
P_Stop ==
    /\ pace.pc = "loop"
    /\ pace.running
    /\ pace' = [pace EXCEPT !.running = FALSE, !.start_time = None]
    /\ UnchangedButPace

\* the rate check of line 502 at the clock read now
PaceDue_always(p, now) == TRUE

PaceDue(p, now) == now - p.last_frame_time >= p.frame_interval

\* one capture part, lines 499-508: frame is what try_get_frame returns
\* ("none", or a frame that process_frame writes, "some", or fails to write)
PaceStep(p, frame) ==
    LET now == p.now
        called == [p EXCEPT !.polled = Some(now),
                            !.repolled = IF p.polled = None THEN p.repolled
                                         ELSE p.repolled
                                              \/ now - p.polled[1] < p.frame_interval]
    IN IF PaceDue(p, now)
       THEN IF frame = "none"
            THEN called
            ELSE [called EXCEPT !.last_frame_time = now,
                                !.frame_count = IF frame = "some" THEN @ + 1 ELSE @,
                                !.frames = p.frames + 1,
                                !.prev = Some(now)]
       ELSE p

P_Capture ==
    /\ pace.pc = "loop"
    /\ pace.running
    /\ pace.frames < MaxPaceFrames
    /\ \E frame \in {"none", "some", "write_fails"} :
        pace' = [PaceStep(pace, frame) EXCEPT !.pc = "progress"]
    /\ UnchangedButPace

\* the progress check that sends a Progress on every iteration
progress_due_always(p, elapsed_secs) == TRUE

\* the check of line 512
progress_due(p, elapsed_secs) == elapsed_secs > p.last_progress_secs

\* the progress part, lines 510-520, at the clock read p.now
ProgressStep(p) ==
    LET elapsed_secs == (p.now - p.start_time[1]) \div PaceUnitsPerSec IN
    IF p.start_time # None /\ progress_due(p, elapsed_secs)
    THEN [p EXCEPT !.last_progress_secs = elapsed_secs,
                   !.emitted = Append(@, [elapsed_secs |-> elapsed_secs,
                                          frame_count |-> p.frame_count])]
    ELSE p

P_Progress ==
    /\ pace.pc = "progress"
    /\ pace' = [ProgressStep(pace) EXCEPT !.pc = "loop"]
    /\ UnchangedButPace

InitPacing == Init

NextPacing ==
    \/ P_Tick
    \/ P_Start
    \/ P_StartTime
    \/ P_Stop
    \/ P_Capture
    \/ P_Progress

SpecPacing == InitPacing /\ [][NextPacing]_vars

\* C11: in one capture run with pacing interval I, two frames processed one
\* after the other are at least I apart at the loop's clock reads, and the
\* number of frames processed within T of the Start never exceeds
\* floor(T/I) + 1.
C11_FramesArePaced ==
    /\ []((pace.running /\ pace.pc = "loop" /\ pace.start_time # None)
            => pace.frames <=
                ((pace.now - pace.start_time[1]) \div pace.frame_interval) + 1)
    /\ [][(pace'.frames = pace.frames + 1 /\ pace.prev # None)
            => pace'.prev[1] - pace.prev[1] >= pace.frame_interval]_vars

\* a run has processed as many frames as the bound allows, more than one,
\* because its start time was read a whole interval after last_frame_time
C11_Witness ==
    /\ pace.running
    /\ pace.pc = "loop"
    /\ pace.frames >= 2
    /\ pace.frames =
        ((pace.now - pace.start_time[1]) \div pace.frame_interval) + 1

\* C24: while a run is active, try_get_frame is called at most once per
\* pacing interval, also while the Frame Source has no frame ready: no call
\* comes less than frame_interval after the call before it.
C24_PolledOncePerInterval == ~pace.repolled

\* C25: in one run the worker sends at most one Progress per elapsed whole
\* second: the elapsed_secs of the Progress events of a run are at least 1
\* and grow strictly; each carries the frame count the processor has when it
\* is sent; none is sent while no run is active.
C25_ProgressOncePerSecond ==
    /\ [](\A k \in 1..Len(pace.emitted) :
            /\ pace.emitted[k].elapsed_secs >= 1
            /\ k > 1 => pace.emitted[k - 1].elapsed_secs < pace.emitted[k].elapsed_secs)
    /\ [][Len(pace'.emitted) > Len(pace.emitted)
            => /\ pace.running
               /\ pace'.running
               /\ Len(pace'.emitted) = Len(pace.emitted) + 1
               /\ pace'.emitted[Len(pace'.emitted)].frame_count = pace'.frame_count
               /\ pace'.emitted[Len(pace'.emitted)].elapsed_secs * PaceUnitsPerSec
                    <= pace.now - pace.start_time[1]]_vars

\* a run has sent its second Progress, with more frames counted than at the
\* first and fewer than were handed to process_frame
C25_Witness ==
    /\ Len(pace.emitted) = 2
    /\ pace.emitted[1].frame_count >= 1
    /\ pace.emitted[2].frame_count > pace.emitted[1].frame_count
    /\ pace.frames > pace.frame_count

(***************************************************************************)
(* SpecWorkerFair: SpecWorker with the worker thread and the receiver of   *)
(* its events scheduled again and again.  The worker loop sleeps 1 ms and  *)
(* polls (main.rs 445-525); result_handler receives in a loop (538-539).   *)
(***************************************************************************)
WorkerStep ==
    \/ W_Init
    \/ W_Send
    \/ W_RecvEmpty
    \/ W_Start
    \/ W_Stop
    \/ W_Shutdown
    \/ W_Capture

SpecWorkerFair ==
    /\ Init
    /\ [][NextWorker]_vars
    /\ WF_vars(WorkerStep)
    /\ WF_vars(Peer_Recv)

\* the Stopped event of a Stop handled with no run active
IdleStopped(ev) == ev.type = "Stopped" /\ ev.run = 0

\* C12: a Stop handled while no run is active produces a Stopped and no
\* Error and leaves the worker idle at its command poll; a Shutdown handled
\* while no run is active ends the loop; the worker's send of that Stopped
\* completes, a command waiting alone in the queue is taken and a full queue
\* gets room (so neither the worker nor a sender waits for ever) unless the
\* worker has ended.
C12_IdleStopAndShutdown ==
    /\ [][(WorkerTakes("Stop") /\ ~w.running)
            => /\ w'.out = Some(Event("Stopped", 0, 0, 0))
               /\ ~w'.running
               /\ ~w'.controller
               /\ w'.pc = "recv"]_vars
    /\ [][(WorkerTakes("Shutdown") /\ ~w.running)
            => w'.pc = "done" /\ w'.out = None]_vars
    /\ (IF w.out = None THEN FALSE ELSE IdleStopped(w.out[1])) ~> (w.out = None)
    /\ \A n \in {1, QueueCap} :
            (Len(cmdq) = n) ~> (Len(cmdq) < n \/ w.pc = "done")

\* a Stop was handled with no run active while the command queue was full
\* behind it: its Stopped is about to be sent and three commands wait
C12_Witness ==
    /\ w.out # None
    /\ IF w.out = None THEN FALSE ELSE IdleStopped(w.out[1])
    /\ ~w.running
    /\ Len(cmdq) = QueueCap - 1
    /\ peer_sent >= QueueCap

(***************************************************************************)
(* SpecShutdown: the end of the process (main.rs 105-110).  The handlers   *)
(* of the UI thread send Start and Stop while the message loop runs; then  *)
(* the window is destroyed, main sends Shutdown and joins both threads.    *)
(* Every thread is scheduled again and again.                              *)
(***************************************************************************)
Exit_SendStart == main_pc = "loop" /\ peer_sent < MaxExitCmds /\ Peer_SendStart

Exit_SendStop == main_pc = "loop" /\ peer_sent < MaxExitCmds /\ Peer_SendStop

HandlerStep ==
    \/ RH_Recv
    \/ RH_Started
    \/ RH_Progress
    \/ RH_Stopped
    \/ RH_Error
    \/ RH_Exit

MainStep == Main_SendShutdown \/ Main_Join

NextShutdown ==
    \/ Exit_SendStart
    \/ Exit_SendStop
    \/ UI_Exit
    \/ MainStep
    \/ WorkerStep
    \/ W_Tick
    \/ HandlerStep

SpecShutdown ==
    /\ Init
    /\ [][NextShutdown]_vars
    /\ WF_vars(MainStep)
    /\ WF_vars(WorkerStep)
    /\ WF_vars(HandlerStep)

\* C13: once main is past its message loop, the Shutdown is sent, the worker
\* leaves its loop when it takes the Shutdown, also with a run active, and
\* releases its Frame Source, the event handler ends, and both joins of main
\* return, whatever the queues hold.
C13_ShutdownEndsBothThreads ==
    /\ (main_pc = "shutdown") ~> (main_pc = "exited")
    /\ [][WorkerTakes("Shutdown")
            => w'.pc = "done" /\ ~w'.controller /\ w'.processor = None]_vars
    /\ [](main_pc = "exited"
            => w.pc = "done" /\ ~w.controller /\ w.processor = None /\ rh.done)

\* main has returned from both joins after a Shutdown that found a run
\* active (the running flag was never reset by a Stop)
C13_Witness ==
    /\ main_pc = "exited"
    /\ w.running
    /\ rh.done

(***************************************************************************)
(* Properties of the channels and of the lock                              *)
(***************************************************************************)
\* C14: a send on the event queue never stalls its sender: whenever the
\* worker has an event to send, its send can complete at once, also when the
\* queue already holds QueueCap events.
C14_SendNeverStalls == (w.out # None) => ENABLED W_Send

\* result_handler handles an event: each of its branches holds the lock from
\* its first to its last statement (main.rs 544-549, 552-560, 563-572)
HandlerLockedStep == rh.cur # None /\ rh'.cur = None

\* the export thread holds the lock while it reports (main.rs 408-425)
ExportLockedStep == \E k \in 1..MaxExports : ReportStep(k)

\* C15: no thread does file or directory I/O, a channel send or encoding
\* while it holds the lock of the shared UI/session state: a step made under
\* the lock leaves the disk and both channels as they were and runs no
\* encoder stage.
C15_NoBlockingUnderLock ==
    [][(HandlerLockedStep \/ ExportLockedStep)
        => /\ disk' = disk
           /\ cmdq' = cmdq
           /\ resq' = resq
           /\ \A k \in 1..Len(exports) : exports'[k].stages = exports[k].stages]_vars

(***************************************************************************)
(* SpecExport: one export thread of on_export_click (main.rs 390-405) and  *)
(* GifExporter::export_from_pngs with its collector and writer threads     *)
(* (gif.rs 168-224).  gif.dur counts duration_secs in 1/DurUnitsPerSec s.  *)
(***************************************************************************)
UnchangedButGif ==
    UNCHANGED <<smvars, status, ui_fc, btn, upd, ui, main_pc, cmdq, resq, w, rh,
                exports, disk, next_dir, peer_sent, pace, fp, geo, ctl>>

\* f64::round of a / b for a >= 0, b > 0: halves round away from zero
RoundDiv(a, b) == (2 * a + b) \div (2 * b)

\* `as i32` of a non-negative f64 that holds an integer
AsI32(x) == IF x > I32Max THEN I32Max ELSE x

clamp(x, lo, hi) == IF x < lo THEN lo ELSE IF x > hi THEN hi ELSE x

\* the fps derivation without its clamp
export_fps_unclamped(frame_count, dur, per_sec) ==
    IF dur > 0 /\ frame_count > 0
    THEN AsI32(RoundDiv(frame_count * per_sec, dur)) % 256
    ELSE ExportDefaultFps

\* main.rs 391-396: the fps handed to the encoder for a session of
\* frame_count frames that lasted dur / per_sec seconds
export_fps(frame_count, dur, per_sec) ==
    IF dur > 0 /\ frame_count > 0
    THEN clamp(AsI32(RoundDiv(frame_count * per_sec, dur)), MinFps, MaxFps)
    ELSE ExportDefaultFps

\* the sessions an export is followed for: frame counts and durations
SampleFrameCounts == {0, 1, 2, 7, 60, 150, 500}
SampleDurations == {0, 1, 2, 16, 24, 80, 8000}

\* the lists of frame paths an export is given: the frames 0 .. MaxGifFrames
\* in increasing order with any of them left out (main.rs 353-356)
SamplePathLists ==
    {paths \in UNION {[1..k -> 0..MaxGifFrames] : k \in 0..(MaxGifFrames + 1)} :
        \A i, j \in 1..Len(paths) : i < j => paths[i] < paths[j]}

\* main.rs 391-403
G_Fps ==
    /\ gif.pc = "fps"
    /\ gif' = [gif EXCEPT !.fps = export_fps(gif.frame_count, gif.dur, DurUnitsPerSec),
                          !.pc = "call"]
    /\ UnchangedButGif

\* an error value: the stage whose result it is and its ExportError variant
StageError(stage, kind) == [stage |-> stage, kind |-> kind]

\* gif.rs 173-175
G_Enter ==
    /\ gif.pc = "call"
    /\ gif' = IF gif.n = 0
              THEN [gif EXCEPT !.pc = "returned",
                               !.res = Some(StageError("caller", "NoFrames"))]
              ELSE [gif EXCEPT !.pc = "new"]
    /\ UnchangedButGif

\* gif.rs 185-215: gifski::new fails, or both stage threads are spawned
G_Spawn ==
    /\ gif.pc = "new"
    /\ \/ gif' = [gif EXCEPT !.pc = "returned",
                             !.res = Some(StageError("caller", "GifEncode"))]
       \/ gif' = [gif EXCEPT !.pc = "join_collector",
                             !.collector.st = "running",
                             !.writer.st = "running"]
    /\ UnchangedButGif

\* the stage that failed first in time, after a failure of stage
FirstAfter(g, stage) == IF g.first = "none" THEN stage ELSE g.first

\* the frame added on an iteration with the number of its file for index
collector_frame_by_file(paths, i, fps) ==
    [path |-> paths[i + 1], index |-> paths[i + 1],
     timestamp |-> [num |-> paths[i + 1], den |-> fps]]

\* gif.rs 194-198: what iteration i of the collector hands to add_frame_rgba:
\* the image of the (i+1)-th path, the index i and the timestamp i / fps
collector_frame(paths, i, fps) ==
    [path |-> paths[i + 1], index |-> i, timestamp |-> [num |-> i, den |-> fps]]

\* collector thread, gif.rs 194-204: one frame is opened and added
Collector_AddFrame ==
    /\ gif.collector.st = "running"
    /\ gif.collector.i < gif.n
    /\ gif.writer.st \in {"running", "created"}
    /\ gif' = [gif EXCEPT !.collector.i = @ + 1,
                          !.collector.added =
                            Append(@, collector_frame(gif.paths, gif.collector.i, gif.fps))]
    /\ UnchangedButGif

\* collector thread, gif.rs 195 and 198-199: image::open fails, or
\* add_frame_rgba does (it does when the writer has gone)
Collector_Fail ==
    /\ gif.collector.st = "running"
    /\ gif.collector.i < gif.n
    /\ \E kind \in {"Image", "GifEncode"} :
        /\ gif.writer.st \in {"ok", "failed"} => kind = "GifEncode"
        /\ gif' = [gif EXCEPT !.collector.st = "failed",
                              !.collector.err = kind,
                              !.first = FirstAfter(gif, "collector")]
    /\ UnchangedButGif

\* collector thread, gif.rs 205
Collector_End ==
    /\ gif.collector.st = "running"
    /\ gif.collector.i = gif.n
    /\ gif' = [gif EXCEPT !.collector.st = "ok"]
    /\ UnchangedButGif

\* writer thread, gif.rs 211: File::create
Writer_Create ==
    /\ gif.writer.st = "running"
    /\ \/ gif' = [gif EXCEPT !.writer.st = "created"]
       \/ gif' = [gif EXCEPT !.writer.st = "failed",
                             !.writer.err = "Io",
                             !.first = FirstAfter(gif, "writer")]
    /\ UnchangedButGif

\* writer thread, gif.rs 212-214: write returns once the collector is
\* dropped, or fails
Writer_Write ==
    /\ gif.writer.st = "created"
    /\ \/ /\ gif.collector.st \in {"ok", "failed"}
          /\ gif' = [gif EXCEPT !.writer.st = "ok"]
       \/ gif' = [gif EXCEPT !.writer.st = "failed",
                             !.writer.err = "GifEncode",
                             !.first = FirstAfter(gif, "writer")]
    /\ UnchangedButGif

\* gif.rs 217-218: the collector is joined; its error is returned at once
Join_Collector ==
    /\ gif.pc = "join_collector"
    /\ gif.collector.st \in {"ok", "failed"}
    /\ gif' = IF gif.collector.st = "failed"
              THEN [gif EXCEPT !.pc = "returned",
                               !.collector.joined = TRUE,
                               !.res = Some(StageError("collector", gif.collector.err))]
              ELSE [gif EXCEPT !.pc = "join_writer", !.collector.joined = TRUE]
    /\ UnchangedButGif

\* gif.rs 220-223: the writer is joined
Join_Writer ==
    /\ gif.pc = "join_writer"
    /\ gif.writer.st \in {"ok", "failed"}
    /\ gif' = IF gif.writer.st = "failed"
              THEN [gif EXCEPT !.pc = "returned",
                               !.writer.joined = TRUE,
                               !.res = Some(StageError("writer", gif.writer.err))]
              ELSE [gif EXCEPT !.pc = "returned",
                               !.writer.joined = TRUE,
                               !.res = Some(StageError("none", "Ok"))]
    /\ UnchangedButGif

InitExport ==
    /\ sm = StateMachine_new
    /\ op = Call("new", 0)
    /\ ret = "unit"
    /\ InitButGif
    /\ geo = Geometry_new(Rect(0, 0, 0, 0), SizeInt32(1, 1))
    /\ \E frame_count \in SampleFrameCounts, dur \in SampleDurations,
          paths \in SamplePathLists :
        gif = ExportRun_new(frame_count, dur, paths)

NextExport ==
    \/ G_Fps
    \/ G_Enter
    \/ G_Spawn
    \/ Collector_AddFrame
    \/ Collector_Fail
    \/ Collector_End
    \/ Writer_Create
    \/ Writer_Write
    \/ Join_Collector
    \/ Join_Writer

SpecExport == InitExport /\ [][NextExport]_vars

\* a stage thread has ended
Ended(stage) == stage.st \in {"ok", "failed"}

\* C16: whenever export_from_pngs has returned after it spawned its stage
\* threads, with success or with an error, the collector and the writer
\* thread have both ended and both been joined.
C16_StagesJoinedAtReturn ==
    (gif.pc = "returned" /\ gif.collector.st # "none")
        => /\ Ended(gif.collector) /\ gif.collector.joined
           /\ Ended(gif.writer) /\ gif.writer.joined

\* C17: when a stage failed, export_from_pngs returns the error of the stage
\* that failed first in time; when the writer failed first, the writer's.
C17_FirstFailureReturned ==
    (gif.pc = "returned" /\ gif.first # "none")
        => gif.res[1].stage = gif.first

\* C20: the fps handed to the encoder is round(frame_count / duration)
\* clamped to MinFps..MaxFps when both are positive (150 frames in 10 s give
\* 15, a ratio that rounds to 0 gives 1, one above 60 gives 60) and 15 when
\* either is 0; it is never outside 1..60.
C20_FpsDerivation ==
    /\ gif.pc # "fps" =>
        /\ gif.fps \in 1..60
        /\ (gif.dur = 0 \/ gif.frame_count = 0) => gif.fps = 15
        /\ (gif.dur > 0 /\ gif.frame_count > 0) =>
            \E r \in 0..(gif.frame_count * DurUnitsPerSec) :
                \* r is the integer nearest to frame_count / duration,
                \* the larger one of two that are equally near
                /\ 2 * (r * gif.dur - gif.frame_count * DurUnitsPerSec) <= gif.dur
                /\ 2 * (gif.frame_count * DurUnitsPerSec - r * gif.dur) < gif.dur
                /\ gif.fps = IF r < 1 THEN 1 ELSE IF r > 60 THEN 60 ELSE r
    /\ export_fps(150, 10 * DurUnitsPerSec, DurUnitsPerSec) = 15
    /\ export_fps(1, 3 * DurUnitsPerSec, DurUnitsPerSec) = 1
    /\ export_fps(500, 1 * DurUnitsPerSec, DurUnitsPerSec) = 60

\* an export of 500 frames recorded in an eighth of a second has derived
\* its fps: the ratio 4000 was clamped
C20_Witness ==
    /\ gif.pc = "call"
    /\ gif.frame_count = 500
    /\ gif.dur = 1
    /\ gif.fps = 60

\* one timestamp is earlier than another
Earlier(a, b) == a.num * b.den < b.num * a.den

\* C23: the collector hands the frames to the encoder in list order: the
\* k-th frame of the list (k = 0, 1, ...) is added with index k and timestamp
\* k / fps; the indices have no gap or repeat and the timestamps grow
\* strictly, also when files were filtered out of the list.
C23_FramesInListOrder ==
    LET added == gif.collector.added IN
    /\ Len(added) = gif.collector.i
    /\ Len(added) <= Len(gif.paths)
    /\ \A k \in 1..Len(added) :
        /\ added[k].path = gif.paths[k]
        /\ added[k].index = k - 1
        /\ added[k].timestamp.den = gif.fps
        /\ added[k].timestamp.num = k - 1
        /\ \A j \in 1..(k - 1) : Earlier(added[j].timestamp, added[k].timestamp)

\* the collector has added both frames of a list from which the file of
\* frame 1 was filtered out, and the export has returned success
C23_Witness ==
    /\ gif.paths = <<0, 2>>
    /\ Len(gif.collector.added) = 2
    /\ gif.pc = "returned"
    /\ gif.res = Some(StageError("none", "Ok"))

(***************************************************************************)
(* SpecFrame: one FrameProcessor (frame.rs 63-117), its public methods     *)
(* called in any order                                                     *)
(***************************************************************************)
UnchangedButFp ==
    UNCHANGED <<smvars, status, ui_fc, btn, upd, ui, main_pc, cmdq, resq, w, rh,
                exports, disk, next_dir, peer_sent, pace, gif, geo, ctl>>

\* the method called and what it returned
Returned(name, result) == [name |-> name, result |-> result]

\* frame.rs 92-93: the path process_frame writes to
process_frame_path(proc) == join(proc.dir, frame_file_name(proc.frame_count))

\* FrameProcessor::get_frame_paths
get_frame_paths(proc) ==
    [i \in 1..proc.frame_count |-> join(proc.dir, frame_file_name(i - 1))]

\* a fresh processor is constructed (main.rs 457)
F_New ==
    /\ \E dir \in Dirs : fp' = FrameProcessor_new(dir)
    /\ UnchangedButFp

F_SetCropRect ==
    /\ \E rect \in BOOLEAN :
        fp' = [fp EXCEPT !.crop_rect = rect,
                         !.last = Returned("set_crop_rect", <<>>)]
    /\ UnchangedButFp

\* process_frame: save_png succeeds ("ok"), fails with no file written
\* ("failed"), or fails with the file already created ("partial")
F_ProcessFrame ==
    /\ fp.proc.frame_count < MaxProcFrames
    /\ \E outcome \in {"ok", "failed", "partial"} :
        LET path == process_frame_path(fp.proc)
            touched == outcome # "failed"
        IN fp' = [fp EXCEPT
                    !.proc = process_frame(fp.proc, outcome = "ok"),
                    !.last = Returned("process_frame",
                                      IF outcome = "ok" THEN <<path>> ELSE <<>>),
                    !.written = IF touched THEN @ \cup {path} ELSE @,
                    !.returned = IF outcome = "ok" THEN @ \cup {path} ELSE @,
                    !.overwrote = @ \/ (touched /\ path \in fp.written \cup fp.returned)]
    /\ UnchangedButFp

F_FrameCount ==
    /\ fp' = [fp EXCEPT !.last = Returned("frame_count", <<fp.proc.frame_count>>)]
    /\ UnchangedButFp

F_GetFramePaths ==
    /\ fp' = [fp EXCEPT !.last = Returned("get_frame_paths", get_frame_paths(fp.proc))]
    /\ UnchangedButFp

\* FrameProcessor::reset
F_Reset ==
    /\ fp' = [fp EXCEPT !.proc.frame_count = 0, !.last = Returned("reset", <<>>)]
    /\ UnchangedButFp

NextFrame ==
    \/ F_New
    \/ F_SetCropRect
    \/ F_ProcessFrame
    \/ F_FrameCount
    \/ F_GetFramePaths
    \/ F_Reset

SpecFrame == Init /\ [][NextFrame]_vars

\* C18: between its construction and its end a frame processor never
\* writes, in process_frame, to a path that an earlier process_frame call
\* wrote to or returned, whatever methods are called in between.
C18_NeverOverwrites == ~fp.overwrote

\* frame i of a directory named as the specification names it: frame_, the
\* five decimal digits of i, .png
FiveDigitPath(dir, i) ==
    [dir |-> dir,
     name |-> [prefix |-> "frame_",
               digits |-> <<(i \div 10000) % 10, (i \div 1000) % 10,
                            (i \div 100) % 10, (i \div 10) % 10, i % 10>>,
               suffix |-> ".png"]]

\* C19: for a frame count N, get_frame_paths returns N paths, the i-th being
\* frame_<i in five zero-padded digits>.png for i = 0..N-1 in that order, as
\* all_frame_paths does for a session of the same directory and frame
\* count; the call leaves the frame count as it was.
C19_FramePathsFromCount ==
    [][(fp'.last.name = "get_frame_paths" /\ fp'.last # fp.last)
        => LET N == fp.proc.frame_count
               paths == fp'.last.result
           IN /\ fp'.proc = fp.proc
              /\ Len(paths) = N
              /\ \A i \in 0..(N - 1) : paths[i + 1] = FiveDigitPath(fp.proc.dir, i)
              /\ paths = session_frame_paths(
                            [RecordingSession_new(fp.proc.dir)
                                EXCEPT !.frame_count = N])]_vars

\* get_frame_paths was called on a cropping processor that counts more than
\* ten frames: the last index has two digits
C19_Witness ==
    /\ fp.last.name = "get_frame_paths"
    /\ Len(fp.last.result) > 10
    /\ fp.crop_rect
    /\ fp.proc.frame_count = Len(fp.last.result)

(***************************************************************************)
(* Export of a session some of whose frame files are missing (Spec)        *)
(***************************************************************************)
\* the frames of 0 .. n-1 whose file exists in directory d
ExistingFrames(d, n) == {i \in 0..(n - 1) : exists(d, i)}

\* the members of a finite set of numbers in increasing order
Ascending(S) ==
    CHOOSE s \in [1..Cardinality(S) -> S] :
        \A i, j \in 1..Cardinality(S) : i < j => s[i] < s[j]

\* the frame of on_export_click expects more files than exist, and some exist
PartialFiles(f) ==
    /\ f.fc > 0
    /\ f.paths # <<>>
    /\ ExistingFrames(f.dir, Len(f.paths)) # {}
    /\ Cardinality(ExistingFrames(f.dir, Len(f.paths))) < Len(f.paths)

\* C21: when only a non-empty proper subset of the expected frame files
\* exists, on_export_click goes on to the save dialog with exactly the
\* existing files in increasing index order and sets no failure status; the
\* export thread is given exactly the list the handler kept; and an encode
\* that returns success is reported as a successful export.
C21_PartialFilesExport ==
    /\ [][(AtExportCheck /\ PartialFiles(Top) /\ ui' # ui)
            => /\ Len(ui') = Len(ui)
               /\ ui'[Len(ui')].pc = "dialog"
               /\ ui'[Len(ui')].paths =
                    Ascending(ExistingFrames(Top.dir, Len(Top.paths)))
               /\ status' = status
               /\ sm' = sm]_vars
    /\ [][Len(exports') > Len(exports)
            => exports'[Len(exports')].paths = Top.paths]_vars
    /\ [](\A k \in 1..Len(exports) :
            exports[k].phase = "encoding" =>
                \A i, j \in 1..Len(exports[k].paths) :
                    i < j => exports[k].paths[i] < exports[k].paths[j])
    /\ [][\A k \in 1..MaxExports :
            (ReportStep(k) /\ exports[k].res = "Ok")
                => status' = "exported" /\ sm'.state = "Idle"]_vars

\* the encoder has returned success for an export that was given fewer
\* files than the session's frame count
C21_Witness ==
    \E k \in 1..Len(exports) :
        /\ exports[k].phase = "returned"
        /\ exports[k].res = "Ok"
        /\ exports[k].paths # <<>>
        /\ Len(exports[k].paths) < exports[k].fc

(***************************************************************************)
(* SpecGeometry: the rectangle arithmetic of determine_monitor_capture     *)
(* (main.rs 236-309) and of CaptureController::process_frame (capture.rs   *)
(* 140-150).  A u32 is kept as its two 16-bit halves, so that a cast of a  *)
(* negative i32 has the value the build gives it.                          *)
(***************************************************************************)
UnchangedButGeo ==
    UNCHANGED <<smvars, status, ui_fc, btn, upd, ui, main_pc, cmdq, resq, w, rh,
                exports, disk, next_dir, peer_sent, pace, fp, gif, ctl>>

Max(a, b) == IF a >= b THEN a ELSE b

\* `as u32` of an i32 (or of a u32 below 2^31): the value modulo 2^32
AsU32(n) == [hi |-> (n \div Half) % Half, lo |-> n % Half]

\* u32::min
U32Min(a, b) ==
    IF a.hi < b.hi THEN a
    ELSE IF a.hi > b.hi THEN b
    ELSE IF a.lo <= b.lo THEN a ELSE b

\* capture.rs 141-150: the origin and the extent of the region copied out of a
\* frame of the given size
copy_region(size, crop_rect) ==
    IF crop_rect # None
    THEN LET rect == crop_rect[1] IN
         [src_x |-> AsU32(Max(rect.x, 0)),
          src_y |-> AsU32(Max(rect.y, 0)),
          width |-> U32Min(AsU32(rect.width), AsU32(size.Width - Max(rect.x, 0))),
          height |-> U32Min(AsU32(rect.height), AsU32(size.Height - Max(rect.y, 0)))]
    ELSE [src_x |-> AsU32(0), src_y |-> AsU32(0),
          width |-> AsU32(size.Width), height |-> AsU32(size.Height)]

\* rcMonitor of the monitors of the desktop: the primary monitor and one to
\* its left that begins higher
Monitors ==
    {[left |-> 0, top |-> 0, right |-> MaxSide, bottom |-> MaxSide - 1],
     [left |-> 0 - MaxSide, top |-> 0 - 1, right |-> 0, bottom |-> MaxSide - 1]}

\* MONITORINFO::default(): what mi holds when GetMonitorInfoW fails
NoMonitorInfo == [left |-> 0, top |-> 0, right |-> 0, bottom |-> 0]

\* a point lies in a RECT
PtInRect(rc, px, py) ==
    rc.left <= px /\ px < rc.right /\ rc.top <= py /\ py < rc.bottom

\* MonitorFromPoint(point, MONITOR_DEFAULTTONEAREST): the monitor that
\* contains the point, or else the nearest one (any one here)
MonitorFromPoint(px, py) ==
    IF \E m \in Monitors : PtInRect(m, px, py)
    THEN {m \in Monitors : PtInRect(m, px, py)}
    ELSE Monitors

\* main.rs 238-239
center(rect) ==
    [x |-> rect.x + rect.width \div 2, y |-> rect.y + rect.height \div 2]

\* u32::saturating_sub
saturating_sub(a, b) == IF a >= b THEN a - b ELSE 0

\* determine_monitor_capture with the part of the selection left of or
\* above the monitor not taken off its extent
determine_monitor_capture_unreduced(rect, mi) ==
    LET monitor_width == Max(mi.right - mi.left, 0)
        monitor_height == Max(mi.bottom - mi.top, 0)
        x == Max(rect.x - mi.left, 0)
        y == Max(rect.y - mi.top, 0)
        crop_rect ==
            IF monitor_width = 0 \/ monitor_height = 0 THEN None
            ELSE IF x >= monitor_width \/ y >= monitor_height THEN None
            ELSE LET cw == Min(rect.width, monitor_width - x)
                     ch == Min(rect.height, monitor_height - y)
                 IN IF cw = 0 \/ ch = 0 THEN None ELSE Some(Rect(x, y, cw, ch))
    IN [crop_rect |-> crop_rect,
        recording_rect |->
            IF crop_rect # None
            THEN Rect(mi.left + crop_rect[1].x, mi.top + crop_rect[1].y,
                      crop_rect[1].width, crop_rect[1].height)
            ELSE rect]

\* main.rs 252-298 for the monitor rectangle mi
determine_monitor_capture(rect, mi) ==
    LET monitor_left == mi.left
        monitor_top == mi.top
        monitor_width == Max(mi.right - mi.left, 0)
        monitor_height == Max(mi.bottom - mi.top, 0)
        x0 == rect.x - monitor_left
        y0 == rect.y - monitor_top
        w0 == IF x0 < 0 THEN saturating_sub(rect.width, 0 - x0) ELSE rect.width
        x == IF x0 < 0 THEN 0 ELSE x0
        h0 == IF y0 < 0 THEN saturating_sub(rect.height, 0 - y0) ELSE rect.height
        y == IF y0 < 0 THEN 0 ELSE y0
        crop_rect ==
            IF monitor_width = 0 \/ monitor_height = 0 THEN None
            ELSE IF x >= monitor_width \/ y >= monitor_height THEN None
            ELSE LET cw == Min(w0, monitor_width - x)
                     ch == Min(h0, monitor_height - y)
                 IN IF cw = 0 \/ ch = 0 THEN None ELSE Some(Rect(x, y, cw, ch))
    IN [crop_rect |-> crop_rect,
        recording_rect |->
            IF crop_rect # None
            THEN Rect(monitor_left + crop_rect[1].x, monitor_top + crop_rect[1].y,
                      crop_rect[1].width, crop_rect[1].height)
            ELSE rect]

\* the selections and frame sizes followed
SampleRects ==
    {Rect(x, y, width, height) :
        x \in (0 - MaxSide)..(MaxSide + 1), y \in (0 - MaxSide)..(MaxSide + 1),
        width \in 0..(MaxSide + 2), height \in 0..(MaxSide + 2)}

SampleSizes == {SizeInt32(W, H) : W \in 1..MaxSide, H \in 1..MaxSide}

\* main.rs 236-309
Geo_DetermineMonitorCapture ==
    /\ \E hmonitor \in MonitorFromPoint(center(geo.rect).x, center(geo.rect).y),
          got \in BOOLEAN :
        LET mi == IF got THEN hmonitor ELSE NoMonitorInfo
            r == determine_monitor_capture(geo.rect, mi)
        IN geo' = [geo EXCEPT !.called = "determine_monitor_capture",
                              !.monitor = Some(mi),
                              !.crop_rect = r.crop_rect,
                              !.recording_rect = Some(r.recording_rect)]
    /\ UnchangedButGeo

\* capture.rs 140-150 for a frame of size geo.size, with and without a crop
Geo_CopyRegion ==
    /\ \E crop_rect \in {None, Some(geo.rect)} :
        geo' = [geo EXCEPT !.called = "process_frame",
                           !.copy = Some([crop_rect |-> crop_rect,
                                          region |-> copy_region(geo.size, crop_rect)])]
    /\ UnchangedButGeo

\* a captured frame of the given size: 4 bytes a pixel, the rows one after
\* the other; the buffer is kept as its length
FrameData(width, height) ==
    [width |-> width, height |-> height, len |-> width * height * 4]

\* frame.rs 47-51: the byte ranges of self.data the loop of crop slices, row
\* by row
crop_rows(frame, rect) ==
    LET src_x == Max(rect.x, 0)
        src_y == Max(rect.y, 0)
        crop_width == Min(rect.width, saturating_sub(frame.width, src_x))
        crop_height == Min(rect.height, saturating_sub(frame.height, src_y))
    IN [y \in 1..crop_height |->
            LET src_offset == ((src_y + (y - 1)) * frame.width + src_x) * 4
            IN [start |-> src_offset, end |-> src_offset + crop_width * 4]]

\* the bytes cropped_data holds after the rows were appended to it
RECURSIVE extend_from_rows(_)
extend_from_rows(rows) ==
    IF rows = <<>> THEN 0
    ELSE extend_from_rows(SubSeq(rows, 1, Len(rows) - 1))
            + (rows[Len(rows)].end - rows[Len(rows)].start)

\* FrameData::crop (frame.rs 39-59): a slice that ends beyond the buffer
\* panics; otherwise the cropped frame is returned
FrameData_crop(frame, rect) ==
    LET src_x == Max(rect.x, 0)
        src_y == Max(rect.y, 0)
        crop_width == Min(rect.width, saturating_sub(frame.width, src_x))
        crop_height == Min(rect.height, saturating_sub(frame.height, src_y))
        rows == crop_rows(frame, rect)
    IN IF \E y \in 1..Len(rows) : rows[y].end > frame.len
       THEN [panicked |-> TRUE, rows |-> rows, frame |-> None]
       ELSE [panicked |-> FALSE, rows |-> rows,
             frame |-> Some([width |-> crop_width, height |-> crop_height,
                             len |-> extend_from_rows(rows)])]

\* FrameData::crop of a frame of size geo.size
Geo_Crop ==
    /\ geo' = [geo EXCEPT !.called = "crop",
                          !.cropped = Some(FrameData_crop(
                                FrameData(geo.size.Width, geo.size.Height),
                                geo.rect))]
    /\ UnchangedButGeo

\* OverlayWindow::show has returned a region (main.rs 146-154); the frames
\* of the target have some size
InitGeometry ==
    /\ sm = StateMachine_new
    /\ op = Call("new", 0)
    /\ ret = "unit"
    /\ InitButGeo
    /\ \E rect \in SampleRects, size \in SampleSizes :
        geo = Geometry_new(rect, size)

NextGeometry ==
    \/ Geo_DetermineMonitorCapture
    \/ Geo_CopyRegion
    \/ Geo_Crop

SpecGeometry == InitGeometry /\ [][NextGeometry]_vars

\* C22: for a frame of size (W,H) and a crop rectangle (x, y, w, h) the
\* copied region has origin (max(x,0), max(y,0)), width w less max(-x,0) and
\* height h less max(-y,0) (0 when that is more than there is), and origin
\* plus extent is at most (W,H).
C22_CopyRegionClamped ==
    (geo.called = "process_frame" /\ geo.copy[1].crop_rect # None)
        => LET rect == geo.copy[1].crop_rect[1]
               region == geo.copy[1].region
           IN /\ region.src_x = AsU32(Max(rect.x, 0))
              /\ region.src_y = AsU32(Max(rect.y, 0))
              /\ region.width = AsU32(saturating_sub(rect.width, Max(0 - rect.x, 0)))
              /\ region.height = AsU32(saturating_sub(rect.height, Max(0 - rect.y, 0)))
              /\ region.width.hi = 0
              /\ region.height.hi = 0
              /\ Max(rect.x, 0) + region.width.lo <= geo.size.Width
              /\ Max(rect.y, 0) + region.height.lo <= geo.size.Height

\* the monitor whose rectangle was read contains the centre of the selection
CentreInMonitor ==
    /\ geo.called = "determine_monitor_capture"
    /\ geo.monitor # None
    /\ PtInRect(geo.monitor[1], center(geo.rect).x, center(geo.rect).y)

\* C30: for a selection and the monitor containing its centre, the crop is
\* present exactly when the selection has area inside the monitor; it is then
\* that common area in monitor-relative coordinates, inside the monitor, its
\* extent reduced by exactly the part of the selection left of or above the
\* monitor; the recording rectangle is the crop moved back by the monitor
\* origin.
C30_MonitorCrop ==
    CentreInMonitor
        => LET mi == geo.monitor[1]
               rect == geo.rect
               x0 == Max(rect.x, mi.left)
               x1 == Min(rect.x + rect.width, mi.right)
               y0 == Max(rect.y, mi.top)
               y1 == Min(rect.y + rect.height, mi.bottom)
               area == x1 > x0 /\ y1 > y0
           IN /\ (geo.crop_rect # None) <=> area
              /\ area =>
                  LET crop == geo.crop_rect[1] IN
                  /\ crop = Rect(x0 - mi.left, y0 - mi.top, x1 - x0, y1 - y0)
                  /\ crop.x >= 0 /\ crop.y >= 0
                  /\ crop.width > 0 /\ crop.height > 0
                  /\ crop.x + crop.width <= mi.right - mi.left
                  /\ crop.y + crop.height <= mi.bottom - mi.top
                  /\ rect.x + rect.width <= mi.right
                        => crop.width = rect.width - Max(mi.left - rect.x, 0)
                  /\ rect.y + rect.height <= mi.bottom
                        => crop.height = rect.height - Max(mi.top - rect.y, 0)
                  /\ geo.recording_rect =
                        Some(Rect(crop.x + mi.left, crop.y + mi.top,
                                  crop.width, crop.height))

\* a selection with its centre in the left monitor that begins above it and
\* ends in the primary monitor was cut to the left monitor
C30_Witness ==
    /\ CentreInMonitor
    /\ geo.crop_rect # None
    /\ geo.monitor[1].left < 0
    /\ geo.rect.y < geo.monitor[1].top
    /\ geo.rect.x + geo.rect.width > geo.monitor[1].right
    /\ geo.crop_rect[1].height < geo.rect.height
    /\ geo.crop_rect[1].width < geo.rect.width

(***************************************************************************)
(* Capture ticks without a frame (SpecWorker)                              *)
(***************************************************************************)
\* the worker runs the capture part of a loop iteration
CaptureTick == w.pc = "capture" /\ w.running /\ w'.pc = "recv"

StoppedHandled == Handling("Stopped") /\ rh'.cur = None

\* start_recording binds a session
SessionBound == sm.state = "Selecting" /\ sm'.state = "Recording"

\* C27: frame_count and duration_secs of a session are 0 when the session is
\* bound, and afterwards only the Stopped branch of result_handler changes
\* them: every other step that leaves a session bound leaves that session as
\* it was, and the Stopped branch stores the counts of its event.
C27_CountsSetOnlyByStopped ==
    [][sm'.session # None
        => IF StoppedHandled
           THEN /\ sm.session # None
                /\ sm'.session[1] =
                       [sm.session[1] EXCEPT
                            !.frame_count = rh.cur[1].frame_count,
                            !.duration_secs = rh.cur[1].secs]
           ELSE IF SessionBound
           THEN /\ sm'.session[1].frame_count = 0
                /\ sm'.session[1].duration_secs = 0
           ELSE /\ sm.session # None
                /\ sm'.session[1] = sm.session[1]]_vars

\* an export was started from a session whose counts a Stopped event had set
C27_Witness ==
    /\ sm.state = "Exporting"
    /\ sm.session # None
    /\ IF sm.session = None THEN FALSE
       ELSE sm.session[1].frame_count > 0 /\ sm.session[1].duration_secs > 0
    /\ status = "exporting"

(***************************************************************************)
(* Leaving Exporting (Spec)                                                *)
(***************************************************************************)
\* C28: while the state is Exporting, the state machine (state and session)
\* is changed only by the step in which an export thread reports its
\* outcome, and that step leaves Exporting: no UI handler and no event of
\* the capture worker changes the state or the session of an export under
\* way.
C28_ExportingUntilReport ==
    [][sm.state = "Exporting"
        => IF \E k \in 1..MaxExports : ReportStep(k)
           THEN sm'.state \in {"Idle", "Recorded"}
           ELSE sm' = sm]_vars

(***************************************************************************)
(* The queries of AppState (SpecSM)                                        *)
(***************************************************************************)
\* C29: can_record, can_stop and can_export are functions of the current
\* state alone: can_record is true exactly in Idle and Recorded, can_stop
\* exactly in Recording, can_export exactly in Recorded; each is true exactly
\* when start_selecting, stop_recording or start_exporting, called in the
\* same state, returns true and makes its transition; and a call of a query
\* leaves state and session as they were.
C29_QueriesMatchTransitions ==
    /\ [](/\ can_record(sm.state) <=> start_selecting(sm).ok
          /\ can_stop(sm.state) <=> stop_recording(sm).ok
          /\ can_export(sm.state) <=> start_exporting(sm).ok)
    /\ [][/\ op'.name = "can_record"
              => sm' = sm /\ ret' = Bool(sm.state \in {"Idle", "Recorded"})
          /\ op'.name = "can_stop"
              => sm' = sm /\ ret' = Bool(sm.state = "Recording")
          /\ op'.name = "can_export"
              => sm' = sm /\ ret' = Bool(sm.state = "Recorded")
          /\ op'.name = "start_selecting"
              => /\ ret' = Bool(sm.state \in {"Idle", "Recorded"})
                 /\ (ret' = "true") <=> (sm'.state = "Selecting" /\ sm.state # "Selecting")
          /\ op'.name = "stop_recording"
              => /\ ret' = Bool(sm.state = "Recording")
                 /\ (ret' = "true") <=> (sm'.state = "Recorded" /\ sm.state # "Recorded")
          /\ op'.name = "start_exporting"
              => /\ ret' = Bool(sm.state = "Recorded")
                 /\ (ret' = "true") <=> (sm'.state = "Exporting" /\ sm.state # "Exporting")]_vars

\* can_record was asked of a machine holding a recorded session with its
\* counts set, and answered true
C29_Witness ==
    /\ op.name = "can_record"
    /\ ret = "true"
    /\ sm.state = "Recorded"
    /\ sm.session # None
    /\ IF sm.session = None THEN FALSE ELSE sm.session[1].frame_count > 0

(***************************************************************************)
(* The capture worker against the state shown (Spec)                       *)
(***************************************************************************)
\* a Stop or a Shutdown command is waiting in the command channel
StopPending ==
    \E i \in 1..Len(cmdq) : cmdq[i].type \in {"Stop", "Shutdown"}

\* C31: whenever the capture worker has an active run (running is set), the
\* state machine is in Recording or a Stop or Shutdown command is still
\* queued for the worker.
C31_RunningOnlyWhileRecording ==
    w.running => (sm.state = "Recording" \/ StopPending)

\* C32: the counts a Stopped event writes into the current session are those
\* of the capture run started for that session: when result_handler handles
\* a Stopped event while a session is bound, the event comes from the run
\* that wrote into the temp directory of that session.
C32_StoppedBelongsToSession ==
    [][(StoppedHandled /\ sm.session # None)
        => rh.cur[1].run = sm.session[1].temp_dir]_vars

(***************************************************************************)
(* The UI handlers and the results of the transitions they call (Spec)     *)
(***************************************************************************)
\* on_record_click passes its call of start_recording
BindStep == TopIs("record", "bind") /\ ui' # ui

\* on_record_click sends its Start command
StartSent ==
    /\ TopIs("record", "send")
    /\ Len(cmdq') = Len(cmdq) + 1
    /\ cmdq'[Len(cmdq')].type = "Start"

\* C33: on_record_click sends Start only if start_recording succeeded: when
\* the state is not Selecting as the picker's selection is bound, no session
\* is bound, the status is not set to recording, and the handler does not go
\* on to send Start; and a Start is sent only by a handler whose session was
\* bound.
C33_StartOnlyAfterBind ==
    [][/\ (BindStep /\ sm.state # "Selecting")
            => /\ sm' = sm
               /\ status' # "recording"
               /\ IF ui' = <<>> THEN TRUE
                  ELSE ~(ui'[Len(ui')].h = "record" /\ ui'[Len(ui')].pc = "send")
       /\ (BindStep /\ sm.state = "Selecting")
            => /\ sm'.state = "Recording"
               /\ sm'.session = Some(RecordingSession_new(Top.dir))]_vars

\* on_export_click spawns its export thread
ExportSpawned == TopIs("export", "dialog") /\ Len(exports') = Len(exports) + 1

\* C34: the encoder pipeline runs only for an export whose start_exporting
\* succeeded: on_export_click spawns its export thread only when the state
\* is Recorded (so that start_exporting makes it Exporting), and an export
\* thread that reports success finds the state Exporting.
C34_ExportOnlyAfterStartExporting ==
    [][/\ ExportSpawned => (sm.state = "Recorded" /\ sm'.state = "Exporting")
       /\ \A k \in 1..MaxExports :
            (ReportStep(k) /\ exports[k].res = "Ok") => sm.state = "Exporting"]_vars

\* a statement of on_stop_click is executed
StopHandlerStep == ui # <<>> /\ Top.h = "stop" /\ ui' # ui

\* C35: on_stop_click sends Stop and sets the recording-finished status only
\* when the state machine is in Recording: a statement of the handler
\* executed in another state sends nothing to the worker and leaves state,
\* session and status as they were.
C35_StopOnlyWhileRecording ==
    [][(StopHandlerStep /\ sm.state # "Recording")
        => /\ cmdq' = cmdq
           /\ sm' = sm
           /\ status' = status]_vars

(***************************************************************************)
(* Temp directories (Spec)                                                 *)
(***************************************************************************)
\* on_record_click has created directory d and has not yet passed its call
\* of start_recording
BeingBound(d) ==
    \E i \in 1..Len(ui) : ui[i].h = "record" /\ ui[i].pc = "bind" /\ ui[i].dir = d

\* C36: every temp directory on disk is the temp_dir of the current session
\* (or is the one an on_record_click under way is about to bind): no
\* sequence of operations leaves a directory on disk that no session refers
\* to.
C36_NoOrphanTempDir ==
    \A d \in DOMAIN disk :
        IF sm.session # None /\ sm.session[1].temp_dir = d THEN TRUE
        ELSE BeingBound(d)

(***************************************************************************)
(* The locals of the capture worker (SpecWorker)                           *)
(***************************************************************************)
\* C37: while the capture worker is in its loop, running is true if and only
\* if a controller is held, if and only if a processor is held, if and only
\* if start_time is set.
C37_WorkerLocalsAgree ==
    (w.pc \in {"recv", "capture"})
        => /\ w.running <=> w.controller
           /\ w.running <=> (w.processor # None)
           /\ w.running <=> (w.start_time # None)

\* a Start taken while a run was active has failed and the run goes on
C37_Witness ==
    /\ w.pc = "recv"
    /\ w.attempt = "start_fails"
    /\ w.running
    /\ w.controller
    /\ w.processor # None
    /\ w.start_time # None

(***************************************************************************)
(* The count of a frame processor (SpecFrame)                              *)
(***************************************************************************)
\* a method of the frame processor has been called
FrameCall(name) == fp'.last.name = name /\ fp' # fp

\* C38: frame_count counts the process_frame calls that returned Ok since
\* construction or reset: it is 0 after new and after reset, a call that
\* returns Ok has written the file of index frame_count and raises the count
\* by one, a call that returns an error leaves the count as it was (so the
\* next call writes under the same index), no other method changes it, and
\* the file of every index below frame_count has been written successfully.
C38_CountsSuccessfulWrites ==
    /\ [][/\ FrameCall("new") => fp'.proc.frame_count = 0
          /\ FrameCall("reset") => fp'.proc.frame_count = 0
          /\ FrameCall("process_frame")
                => IF fp'.last.result # <<>>
                   THEN /\ fp'.proc.frame_count = fp.proc.frame_count + 1
                        /\ fp'.last.result = <<process_frame_path(fp.proc)>>
                   ELSE /\ fp'.proc.frame_count = fp.proc.frame_count
                        /\ process_frame_path(fp'.proc) = process_frame_path(fp.proc)
          /\ (fp'.last.name \in {"set_crop_rect", "frame_count", "get_frame_paths"})
                => fp'.proc.frame_count = fp.proc.frame_count]_vars
    /\ [](\A i \in 0..(fp.proc.frame_count - 1) :
            join(fp.proc.dir, frame_file_name(i)) \in fp.returned)

\* after one frame was saved, the write of the next one failed with its file
\* already created: the count is still 1
C38_Witness ==
    /\ fp.last = Returned("process_frame", <<>>)
    /\ fp.proc.frame_count = 1
    /\ process_frame_path(fp.proc) \in fp.written
    /\ process_frame_path(fp.proc) \notin fp.returned

(***************************************************************************)
(* SpecController: one CaptureController (capture.rs 27-108, 256-260), its *)
(* public methods called in any order                                      *)
(***************************************************************************)
UnchangedButCtl ==
    UNCHANGED <<smvars, status, ui_fc, btn, upd, ui, main_pc, cmdq, resq, w, rh,
                exports, disk, next_dir, peer_sent, pace, fp, gif, geo>>

\* the method called, its argument and what it returned
CtlReturned(name, arg, result) == [name |-> name, arg |-> arg, result |-> result]

\* the fallible steps of start, in the order of capture.rs 54-69
StartSteps ==
    <<"create_capture_item", "Size", "CreateFreeThreaded",
      "CreateCaptureSession", "StartCapture">>

\* the outcomes of a start: it returns the error of step k, or Ok
StartOutcomes == {StartSteps[k] : k \in 1..Len(StartSteps)} \cup {"Ok"}

\* a start that sets the running flag only after StartCapture has succeeded
start_flag_after_capture(c, target, outcome) ==
    IF outcome = "Ok"
    THEN [c EXCEPT !.running = TRUE,
                   !.session = Some("session"),
                   !.frame_pool = Some("frame_pool"),
                   !.last = CtlReturned("start", target, "Ok"),
                   !.active = TRUE]
    ELSE [c EXCEPT !.last = CtlReturned("start", target, "Err")]

\* CaptureController::start (capture.rs 54-76): a step that fails returns
\* its error at once (`?`); the running flag is stored before StartCapture,
\* session and frame pool after it
start(c, target, outcome) ==
    IF outcome \in {"create_capture_item", "Size", "CreateFreeThreaded",
                    "CreateCaptureSession"}
    THEN [c EXCEPT !.last = CtlReturned("start", target, "Err")]
    ELSE IF outcome = "StartCapture"
    THEN [c EXCEPT !.running = TRUE,
                   !.last = CtlReturned("start", target, "Err")]
    ELSE [c EXCEPT !.running = TRUE,
                   !.session = Some("session"),
                   !.frame_pool = Some("frame_pool"),
                   !.last = CtlReturned("start", target, "Ok"),
                   !.active = TRUE]

\* CaptureController::stop (capture.rs 79-89)
stop(c) ==
    [c EXCEPT !.running = FALSE, !.session = None, !.frame_pool = None,
              !.last = CtlReturned("stop", "none", "unit"),
              !.active = FALSE]

\* CaptureController::try_get_frame (capture.rs 92-103); ready: the frame
\* pool has a frame and reading it succeeds
try_get_frame(c, ready) ==
    IF ~c.running
    THEN [c EXCEPT !.last = CtlReturned("try_get_frame", "none", "None")]
    ELSE IF c.frame_pool = None
    THEN [c EXCEPT !.last = CtlReturned("try_get_frame", "none", "None")]
    ELSE IF ready
    THEN [c EXCEPT !.last = CtlReturned("try_get_frame", "none", "Some"),
                   !.frames = c.frames + 1]
    ELSE [c EXCEPT !.last = CtlReturned("try_get_frame", "none", "None")]

\* CaptureController::is_running (capture.rs 106-108)
is_running(c) == c.running

Ctl_New ==
    /\ ctl' = CaptureController_new
    /\ UnchangedButCtl

Ctl_SetCropRect ==
    /\ \E rect \in {None, Some(Rect(0, 0, 1, 1)), Some(Rect(-1, -1, 2, 2))} :
        ctl' = [ctl EXCEPT !.crop_rect = rect,
                           !.last = CtlReturned("set_crop_rect", "none", "unit")]
    /\ UnchangedButCtl

Ctl_Start ==
    /\ \E target \in {"Window", "Monitor"}, outcome \in StartOutcomes :
        ctl' = start(ctl, target, outcome)
    /\ UnchangedButCtl

Ctl_Stop ==
    /\ ctl' = stop(ctl)
    /\ UnchangedButCtl

Ctl_TryGetFrame ==
    /\ ctl.frames < MaxCtlFrames
    /\ \E ready \in BOOLEAN : ctl' = try_get_frame(ctl, ready)
    /\ UnchangedButCtl

Ctl_IsRunning ==
    /\ ctl' = [ctl EXCEPT !.last = CtlReturned("is_running", "none",
                                               Bool(is_running(ctl)))]
    /\ UnchangedButCtl

NextController ==
    \/ Ctl_New
    \/ Ctl_SetCropRect
    \/ Ctl_Start
    \/ Ctl_Stop
    \/ Ctl_TryGetFrame
    \/ Ctl_IsRunning

SpecController == Init /\ [][NextController]_vars

\* start has returned an error
StartFailed == ctl'.last.name = "start" /\ ctl'.last.result = "Err" /\ ctl' # ctl

\* C39: after start returns an error the controller is not running:
\* is_running() is false and no session or frame pool is held (so that
\* try_get_frame returns None); and is_running() is true only between a
\* start that returned Ok and the next stop.
C39_FailedStartNotRunning ==
    /\ [][StartFailed
            => /\ ~is_running(ctl')
               /\ ctl'.session = None
               /\ ctl'.frame_pool = None]_vars
    /\ [](is_running(ctl) => ctl.active)

(***************************************************************************)
(* FrameData::crop (SpecGeometry)                                          *)
(***************************************************************************)
\* C40: for a frame of size (W,H) with a buffer of W*H*4 bytes and any crop
\* rectangle, crop slices only ranges inside the buffer (it does not panic)
\* and returns a frame of width at most W and height at most H whose data
\* has exactly width*height*4 bytes.
C40_CropStaysInBuffer ==
    (geo.called = "crop" /\ geo.cropped # None)
        => LET c == geo.cropped[1] IN
           /\ ~c.panicked
           /\ \A y \in 1..Len(c.rows) :
                c.rows[y].start >= 0 /\ c.rows[y].end <= geo.size.Width * geo.size.Height * 4
           /\ c.frame # None
           /\ c.frame[1].width <= geo.size.Width
           /\ c.frame[1].height <= geo.size.Height
           /\ c.frame[1].len = c.frame[1].width * c.frame[1].height * 4

====
